---- MODULE Spec2Model ----
(***************************************************************************)
(* Markdown structure linters of dev-ssot: check_fences, the heading       *)
(* extractors, check_section_order, check_references, check_last_updated,  *)
(* check_links, the anchors and the table-of-contents scan of check_toc,   *)
(* and the drivers.                                                        *)
(*                                                                         *)
(* A document is a sequence of lines (text.splitlines()); a line is a      *)
(* sequence of tokens.  A token is one character where the patterns of    *)
(* the code look at characters (backtick, tilde, "#", " ", "[", "R", a     *)
(* digit, "]", "-") and otherwise a word: a run of text that no pattern    *)
(* of the code matches inside.                                             *)
(***************************************************************************)
EXTENDS Integers, Sequences, FiniteSets, TLC

VARIABLES
    path,          \* name of the document under analysis (path.name)
    text,          \* check_fences: the lines read so far; other passes: the document
    pc,            \* position of the driver
    in_fence,      \* check_fences.lint_file: in_fence
    fence_marker,  \* check_fences.lint_file: fence_marker
    opened_at,     \* check_fences.lint_file: opened_at
    fence_errors,  \* check_fences.lint_file: errors
    so_headings,   \* check_section_order.lint_file: headings
    toc_headings,  \* check_toc.lint_file: headings
    so_errors,     \* check_section_order.lint_file: errors
    ref_errors,    \* check_references.lint_file: errors
    date_errors,   \* check_last_updated.main: errors
    fs,            \* check_links: whether the paths handed to resolution exist
    resolved,      \* check_links: the path parts handed to resolution, in order
    BROKEN,        \* check_links: BROKEN
    slugs,         \* check_toc.slugify: a text and the results of the calls on it
    ba_headings,   \* check_toc.build_anchor_set: headings
    counts,        \* check_toc.build_anchor_set: counts
    anchors,       \* check_toc.build_anchor_set: anchors
    assigned,      \* check_toc.build_anchor_set: the anchor of each turn of the loop
    loops,         \* in_fence, fence_marker and output of the loops of the other passes
    md_files,      \* main: the documents the driver goes through
    checked,       \* main: checked, the number of calls of lint_file
    all_errors,    \* main: all_errors
    lint_idx,      \* lint_file: idx, the number of lines of the document read so far
    anchor_set,    \* check_toc.lint_file: anchor_set
    in_toc,        \* check_toc.lint_file: in_toc
    toc_errors     \* check_toc.lint_file: errors

\* the variables of check_fences, check_section_order, the heading pass of
\* check_toc and check_references
core == <<in_fence, fence_marker, opened_at, fence_errors, so_headings,
          toc_headings, so_errors, ref_errors>>

\* the variables of the other passes
dates_vars == <<date_errors>>
links_vars == <<fs, resolved, BROKEN>>
toc_vars == <<slugs, ba_headings, counts, anchors, assigned>>
loops_vars == <<loops>>
driver_vars == <<md_files, checked, all_errors, lint_idx>>
scan_vars == <<anchor_set, in_toc, toc_errors>>

ext == <<dates_vars, links_vars, toc_vars, loops_vars, driver_vars, scan_vars>>

vars == <<path, text, pc, in_fence, fence_marker, opened_at, fence_errors,
          so_headings, toc_headings, so_errors, ref_errors, ext>>

\* the state of a pass that has not run
CoreIdle ==
    /\ in_fence = FALSE
    /\ fence_marker = <<>>
    /\ opened_at = 0
    /\ fence_errors = <<>>
    /\ so_headings = <<>>
    /\ toc_headings = <<>>
    /\ so_errors = <<>>
    /\ ref_errors = <<>>

DatesIdle == date_errors = <<>>

LinksIdle ==
    /\ fs = FALSE
    /\ resolved = <<>>
    /\ BROKEN = <<>>

TocIdle ==
    /\ slugs = <<>>
    /\ ba_headings = <<>>
    /\ counts = <<>>
    /\ anchors = {}
    /\ assigned = <<>>

LoopsIdle == loops = <<>>

DriverIdle ==
    /\ md_files = <<>>
    /\ checked = 0
    /\ all_errors = <<>>
    /\ lint_idx = 0

ScanIdle ==
    /\ anchor_set = {}
    /\ in_toc = FALSE
    /\ toc_errors = <<>>

\* every pass but the pass named has not run
IdleBut(pass) ==
    /\ IF pass = "dates" THEN TRUE ELSE DatesIdle
    /\ IF pass = "links" THEN TRUE ELSE LinksIdle
    /\ IF pass = "toc" THEN TRUE ELSE TocIdle
    /\ IF pass = "loops" THEN TRUE ELSE LoopsIdle
    /\ IF pass = "driver" THEN TRUE ELSE DriverIdle
    /\ IF pass = "scan" THEN TRUE ELSE ScanIdle

ExtIdle == IdleBut("none")

----------------------------------------------------------------------------
(* Bounds of the model *)

\* longest document read line by line
MaxLines == 4

\* most insertions into a skeleton of required headings
MaxExtra == 1

\* longest document of the reference pass
MaxRefLines == 5

----------------------------------------------------------------------------
(* Sequences and characters *)

\* the backtick character (a TLA+ string cannot hold it) and the tilde
Backtick == "BACKTICK"
Tilde == "~"

Last(s) == s[Len(s)]

Range(s) == {s[i] : i \in 1..Len(s)}

\* all sequences over S of length at most n
SeqsUpTo(S, n) == UNION {[1..k -> S] : k \in 0..n}

\* \s of the regular expressions
IsSpace(c) == c \in {" ", "\t"}

\* length of the longest run of c that starts the line
LeadingRun(line, c) ==
    IF \E k \in 1..Len(line) : line[k] # c
    THEN (CHOOSE k \in 1..Len(line) :
              line[k] # c /\ \A j \in 1..(k - 1) : line[j] = c) - 1
    ELSE Len(line)

\* str.strip(): drop the leading and the trailing whitespace
Strip(s) ==
    IF \A k \in 1..Len(s) : IsSpace(s[k])
    THEN <<>>
    ELSE LET a == CHOOSE k \in 1..Len(s) :
                      ~IsSpace(s[k]) /\ \A j \in 1..(k - 1) : IsSpace(s[j])
             b == CHOOSE k \in 1..Len(s) :
                      ~IsSpace(s[k]) /\ \A j \in (k + 1)..Len(s) : IsSpace(s[j])
         IN  SubSeq(s, a, b)

\* str.startswith(prefix)
StartsWith(s, prefix) ==
    Len(s) >= Len(prefix) /\ SubSeq(s, 1, Len(prefix)) = prefix

----------------------------------------------------------------------------
(* check_fences.py *)

\* a fence pattern that takes a run of two for a marker
FENCE_RE_from_two(line) ==
    IF LeadingRun(line, Backtick) >= 2
    THEN SubSeq(line, 1, LeadingRun(line, Backtick))
    ELSE IF LeadingRun(line, Tilde) >= 2
    THEN SubSeq(line, 1, LeadingRun(line, Tilde))
    ELSE <<>>

\* FENCE_RE, three or more backticks or three or more tildes at the start of
\* the line: the marker matched (the whole leading run, the quantifier being
\* greedy), <<>> if none
FENCE_RE(line) ==
    IF LeadingRun(line, Backtick) >= 3
    THEN SubSeq(line, 1, LeadingRun(line, Backtick))
    ELSE IF LeadingRun(line, Tilde) >= 3
    THEN SubSeq(line, 1, LeadingRun(line, Tilde))
    ELSE <<>>

\* a closing test that compares the lengths only
ClosesAnyChar(marker, open_marker) == Len(marker) >= Len(open_marker)

\* marker.startswith(fence_marker[:1]) and len(marker) >= len(fence_marker)
Closes(marker, open_marker) ==
    /\ StartsWith(marker, SubSeq(open_marker, 1, 1))
    /\ Len(marker) >= Len(open_marker)

\* a loop body that keeps the line of the first opening it saw
FenceStepKeepFirst(st, idx, line) ==
    LET marker == FENCE_RE(line)
    IN  IF marker = <<>> THEN st
        ELSE IF ~st.in_fence
        THEN [in_fence |-> TRUE, fence_marker |-> marker,
              opened_at |-> IF st.opened_at = 0 THEN idx ELSE st.opened_at]
        ELSE IF Closes(marker, st.fence_marker)
        THEN [in_fence |-> FALSE, fence_marker |-> <<>>, opened_at |-> st.opened_at]
        ELSE st

\* lint_file, the body of the loop over the lines: the fence state after the
\* line with 1-based index idx
FenceStep(st, idx, line) ==
    LET marker == FENCE_RE(line)
    IN  IF marker = <<>> THEN st
        ELSE IF ~st.in_fence
        THEN [in_fence |-> TRUE, fence_marker |-> marker, opened_at |-> idx]
        ELSE IF Closes(marker, st.fence_marker)
        THEN [in_fence |-> FALSE, fence_marker |-> <<>>, opened_at |-> 0]
        ELSE st

\* the lines the fence pass reads
L_bt2 == <<Backtick, Backtick>>
L_bt3 == <<Backtick, Backtick, Backtick>>
L_bt4 == <<Backtick, Backtick, Backtick, Backtick>>
L_td3 == <<Tilde, Tilde, Tilde>>
L_bt3py == <<Backtick, Backtick, Backtick, "py">>
L_text == <<"text">>
FenceLines == {L_bt2, L_bt3, L_bt4, L_td3, L_bt3py, L_text}

\* lint_file: one turn of the loop, on the next line of the document
FencesLoopLine(line) ==
    /\ pc = "fences"
    /\ Len(text) < MaxLines
    /\ text' = Append(text, line)
    /\ LET st == FenceStep([in_fence |-> in_fence, fence_marker |-> fence_marker,
                            opened_at |-> opened_at], Len(text) + 1, line)
       IN  /\ in_fence' = st.in_fence
           /\ fence_marker' = st.fence_marker
           /\ opened_at' = st.opened_at
    /\ UNCHANGED <<ext, path, pc, fence_errors, so_headings, toc_headings, so_errors,
                   ref_errors>>

\* lint_file: the end of the document
FencesEnd ==
    /\ pc = "fences"
    /\ pc' = "done"
    /\ fence_errors' =
           IF in_fence
           THEN <<[kind |-> "unclosed fence", path |-> path, line |-> opened_at]>>
           ELSE <<>>
    /\ UNCHANGED <<ext, path, text, in_fence, fence_marker, opened_at, so_headings,
                   toc_headings, so_errors, ref_errors>>

InitFences ==
    /\ path = "README.md"
    /\ text = <<>>
    /\ pc = "fences"
    /\ in_fence = FALSE
    /\ fence_marker = <<>>
    /\ opened_at = 0
    /\ fence_errors = <<>>
    /\ so_headings = <<>>
    /\ toc_headings = <<>>
    /\ so_errors = <<>>
    /\ ref_errors = <<>>
    /\ ExtIdle

NextFences ==
    \/ \E line \in FenceLines : FencesLoopLine(line)
    \/ FencesEnd

SpecFences == InitFences /\ [][NextFences]_vars

----------------------------------------------------------------------------
(* check_section_order.py *)

\* a line "## <name>"
H2(name) == <<"#", "#", " ", name>>

REQUIRED_HEADINGS == <<
    H2("Agent Contract"),
    H2("TL;DR"),
    H2("Canonical Definitions"),
    H2("Core Patterns"),
    H2("Decision Checklist"),
    H2("Anti-patterns / Pitfalls"),
    H2("Evaluation"),
    H2("Update Log"),
    H2("See Also"),
    H2("References") >>

OPTIONAL_HEADING == H2("Practical Examples")

\* the tokens lint_file looks for in SSOT.md, in the order of the loop
SSOT_TOKENS == <<"BCP 14", "RFC 2119", "RFC 8174">>

\* H2_RE = ^##\s+(.+?)\s*$ matches the line: "##", one or more whitespace
\* characters, one or more characters, optional trailing whitespace
H2_RE_matches(line) ==
    /\ Len(line) >= 4
    /\ line[1] = "#"
    /\ line[2] = "#"
    /\ IsSpace(line[3])

\* f"## {m.group(1).strip()}"
H2_RE_heading(line) == <<"#", "#", " ">> \o Strip(SubSeq(line, 3, Len(line)))

\* an extractor that looks for headings in fenced lines too
RECURSIVE SO_headings_ignoring_fences(_, _, _, _)
SO_headings_ignoring_fences(doc, k, fenced, open_marker) ==
    IF k > Len(doc) THEN <<>>
    ELSE IF H2_RE_matches(doc[k])
    THEN <<H2_RE_heading(doc[k])>>
             \o SO_headings_ignoring_fences(doc, k + 1, fenced, open_marker)
    ELSE SO_headings_ignoring_fences(doc, k + 1, fenced, open_marker)

\* extract_headings, the loop from line k on, with in_fence = fenced and
\* fence_marker = open_marker
RECURSIVE SO_extract_from(_, _, _, _)
SO_extract_from(doc, k, fenced, open_marker) ==
    IF k > Len(doc) THEN <<>>
    ELSE LET line == doc[k]
             marker == FENCE_RE(line)
         IN  IF marker # <<>> /\ ~fenced
             THEN SO_extract_from(doc, k + 1, TRUE, marker)
             ELSE IF marker # <<>> /\ Closes(marker, open_marker)
             THEN SO_extract_from(doc, k + 1, FALSE, <<>>)
             ELSE IF fenced
             THEN SO_extract_from(doc, k + 1, fenced, open_marker)
             ELSE IF H2_RE_matches(line)
             THEN <<H2_RE_heading(line)>>
                      \o SO_extract_from(doc, k + 1, fenced, open_marker)
             ELSE SO_extract_from(doc, k + 1, fenced, open_marker)

\* check_section_order.extract_headings
SO_extract_headings(doc) == SO_extract_from(doc, 1, FALSE, <<>>)

\* the index of the last occurrence of h in headings
LastPosition(headings, h) ==
    (CHOOSE i \in 1..Len(headings) :
         headings[i] = h /\ \A j \in (i + 1)..Len(headings) : headings[j] # h) - 1

\* positions[h]: the 0-based index of the first occurrence of h in headings
Position(headings, h) ==
    (CHOOSE i \in 1..Len(headings) :
         headings[i] = h /\ \A j \in 1..(i - 1) : headings[j] # h) - 1

\* h in positions
Present(headings, h) == \E i \in 1..Len(headings) : headings[i] = h

\* the first absent required heading alone
FirstMissing(headings) ==
    LET all == SelectSeq(REQUIRED_HEADINGS, LAMBDA h : ~Present(headings, h))
    IN  IF all = <<>> THEN <<>> ELSE <<all[1]>>

\* missing = [h for h in REQUIRED_HEADINGS if h not in positions]
Missing(headings) ==
    SelectSeq(REQUIRED_HEADINGS, LAMBDA h : ~Present(headings, h))

\* an order loop that names the canonical predecessor of the heading it stops at
RECURSIVE OrderLoopNamesPredecessor(_, _, _, _)
OrderLoopNamesPredecessor(p, headings, k, last_idx) ==
    IF k > Len(REQUIRED_HEADINGS) THEN <<>>
    ELSE LET h == REQUIRED_HEADINGS[k]
             idx == Position(headings, h)
         IN  IF idx <= last_idx
             THEN <<[kind |-> "section order violation", path |-> p,
                     at |-> REQUIRED_HEADINGS[k - 1]]>>
             ELSE OrderLoopNamesPredecessor(p, headings, k + 1, idx)

\* lint_file, the loop over REQUIRED_HEADINGS from the k-th heading on
RECURSIVE OrderLoop(_, _, _, _)
OrderLoop(p, headings, k, last_idx) ==
    IF k > Len(REQUIRED_HEADINGS) THEN <<>>
    ELSE LET h == REQUIRED_HEADINGS[k]
             idx == Position(headings, h)
         IN  IF idx <= last_idx
             THEN <<[kind |-> "section order violation", path |-> p, at |-> h]>>
             ELSE OrderLoop(p, headings, k + 1, idx)

\* an optional-heading check that accepts the optional heading anywhere after
\* "## Evaluation"
OptionalCheckAfterEvaluation(p, headings) ==
    IF /\ Present(headings, OPTIONAL_HEADING)
       /\ ~(Position(headings, H2("Evaluation")) < Position(headings, OPTIONAL_HEADING))
    THEN <<[kind |-> "optional heading misplaced", path |-> p]>>
    ELSE <<>>

\* lint_file: the check of OPTIONAL_HEADING
OptionalCheck(p, headings) ==
    IF /\ Present(headings, OPTIONAL_HEADING)
       /\ ~(/\ Position(headings, H2("Evaluation")) < Position(headings, OPTIONAL_HEADING)
            /\ Position(headings, OPTIONAL_HEADING) < Position(headings, H2("Update Log")))
    THEN <<[kind |-> "optional heading misplaced", path |-> p]>>
    ELSE <<>>

\* token in text
TextContains(doc, token) ==
    \E k \in 1..Len(doc) : \E i \in 1..Len(doc[k]) : doc[k][i] = token

\* a token check that reads every document
RECURSIVE TokenCheckAnyName(_, _, _)
TokenCheckAnyName(p, doc, k) ==
    IF k > Len(SSOT_TOKENS) THEN <<>>
    ELSE IF ~TextContains(doc, SSOT_TOKENS[k])
    THEN <<[kind |-> "missing token", path |-> p, token |-> SSOT_TOKENS[k]]>>
    ELSE TokenCheckAnyName(p, doc, k + 1)

\* lint_file: the check of the tokens of SSOT.md, from the k-th token on
RECURSIVE TokenCheck(_, _, _)
TokenCheck(p, doc, k) ==
    IF p # "SSOT.md" \/ k > Len(SSOT_TOKENS) THEN <<>>
    ELSE IF ~TextContains(doc, SSOT_TOKENS[k])
    THEN <<[kind |-> "missing token", path |-> p, token |-> SSOT_TOKENS[k]]>>
    ELSE TokenCheck(p, doc, k + 1)

\* check_section_order.lint_file: the errors of the document, from its headings
SectionOrderErrors(p, doc, headings) ==
    IF Missing(headings) # <<>>
    THEN <<[kind |-> "missing required headings", path |-> p,
            names |-> Missing(headings)]>>
    ELSE OrderLoop(p, headings, 1, -1)
             \o OptionalCheck(p, headings)
             \o TokenCheck(p, doc, 1)

----------------------------------------------------------------------------
(* check_toc.py: the heading extractor *)

\* HEADING_RE = ^(#{1,6})\s+(.+?)\s*$ matches the line
HEADING_RE_matches(line) ==
    LET n == LeadingRun(line, "#")
    IN  /\ n \in 1..6
        /\ Len(line) >= n + 2
        /\ IsSpace(line[n + 1])

\* m.group(2).strip()
HEADING_RE_text(line) ==
    Strip(SubSeq(line, LeadingRun(line, "#") + 1, Len(line)))

\* extract_headings, the loop from line k on
RECURSIVE TOC_extract_from(_, _, _, _)
TOC_extract_from(doc, k, fenced, open_marker) ==
    IF k > Len(doc) THEN <<>>
    ELSE LET line == doc[k]
             marker == FENCE_RE(line)
         IN  IF marker # <<>> /\ ~fenced
             THEN TOC_extract_from(doc, k + 1, TRUE, marker)
             ELSE IF marker # <<>> /\ Closes(marker, open_marker)
             THEN TOC_extract_from(doc, k + 1, FALSE, <<>>)
             ELSE IF fenced
             THEN TOC_extract_from(doc, k + 1, fenced, open_marker)
             ELSE IF HEADING_RE_matches(line)
             THEN <<HEADING_RE_text(line)>>
                      \o TOC_extract_from(doc, k + 1, fenced, open_marker)
             ELSE TOC_extract_from(doc, k + 1, fenced, open_marker)

\* check_toc.extract_headings
TOC_extract_headings(doc) == TOC_extract_from(doc, 1, FALSE, <<>>)

----------------------------------------------------------------------------
(* The section-order pass over documents built from the required skeleton *)

\* doc with the lines ls put after its p-th line
InsertAt(doc, p, ls) == SubSeq(doc, 1, p) \o ls \o SubSeq(doc, p + 1, Len(doc))

\* doc without its i-th line
DeleteAt(doc, i) == SubSeq(doc, 1, i - 1) \o SubSeq(doc, i + 1, Len(doc))

\* doc with its i-th and (i+1)-th lines exchanged
SwapAt(doc, i) ==
    [k \in 1..Len(doc) |->
        IF k = i THEN doc[i + 1] ELSE IF k = i + 1 THEN doc[i] ELSE doc[k]]

\* the required headings in canonical order, one exchanged pair, or one
\* heading left out
Skeletons ==
    {REQUIRED_HEADINGS}
        \cup {SwapAt(REQUIRED_HEADINGS, i) : i \in 1..(Len(REQUIRED_HEADINGS) - 1)}
        \cup {DeleteAt(REQUIRED_HEADINGS, i) : i \in 1..Len(REQUIRED_HEADINGS)}

\* what one insertion puts in: the optional heading, a repeated required
\* heading, one of them in a closed fence, one in a closed fence after a
\* shorter marker that does not close it, or the opening of a fence that is
\* never closed
ExtraBlocks ==
    {<<OPTIONAL_HEADING>>,
     <<REQUIRED_HEADINGS[7]>>,
     <<REQUIRED_HEADINGS[10]>>,
     <<L_bt3, OPTIONAL_HEADING, L_bt3>>,
     <<L_bt4, L_bt3, REQUIRED_HEADINGS[10], L_bt4>>,
     <<L_td3>>}

\* the places and blocks of at most n insertions into a skeleton
Insertions(n) ==
    SeqsUpTo((0..(Len(REQUIRED_HEADINGS) + 4 * n)) \X ExtraBlocks, n)

\* doc after the insertions ins, made one after the other (a place past the
\* end of the document is its end)
RECURSIVE WithExtras(_, _)
WithExtras(doc, ins) ==
    IF ins = <<>> THEN doc
    ELSE LET p == IF ins[1][1] > Len(doc) THEN Len(doc) ELSE ins[1][1]
         IN  WithExtras(InsertAt(doc, p, ins[1][2]), Tail(ins))

\* a line that holds the tokens of T
TokenLine(T) ==
    LET RECURSIVE build(_)
        build(k) == IF k > Len(SSOT_TOKENS) THEN <<>>
                    ELSE IF SSOT_TOKENS[k] \in T
                    THEN <<SSOT_TOKENS[k], " ">> \o build(k + 1)
                    ELSE build(k + 1)
    IN  <<"see", " ">> \o build(1)

\* documents with a line of tokens, after the skeleton or in a fence before it
TokenDocs ==
    LET skel == {REQUIRED_HEADINGS, SwapAt(REQUIRED_HEADINGS, 3),
                 DeleteAt(REQUIRED_HEADINGS, 9)}
    IN  UNION {{d \o <<TokenLine(T)>>, <<L_bt3, TokenLine(T), L_bt3>> \o d,
                InsertAt(d, 7, <<OPTIONAL_HEADING, TokenLine(T)>>)} :
               d \in skel, T \in SUBSET Range(SSOT_TOKENS)}

\* check_section_order.lint_file
SO_lint_file ==
    /\ pc = "section_order"
    /\ pc' = "toc"
    /\ so_headings' = SO_extract_headings(text)
    /\ so_errors' = SectionOrderErrors(path, text, SO_extract_headings(text))
    /\ UNCHANGED <<ext, path, text, in_fence, fence_marker, opened_at, fence_errors,
                   toc_headings, ref_errors>>

\* check_toc.lint_file: headings = extract_headings(text)
TOC_headings ==
    /\ pc = "toc"
    /\ pc' = "done"
    /\ toc_headings' = TOC_extract_headings(text)
    /\ UNCHANGED <<ext, path, text, in_fence, fence_marker, opened_at, fence_errors,
                   so_headings, so_errors, ref_errors>>

InitOrder ==
    /\ \/ /\ path = "guide.md"
          /\ \E doc \in Skeletons : \E ins \in Insertions(MaxExtra) :
                text = WithExtras(doc, ins)
       \/ path \in {"SSOT.md", "guide.md"} /\ text \in TokenDocs
    /\ pc = "section_order"
    /\ in_fence = FALSE
    /\ fence_marker = <<>>
    /\ opened_at = 0
    /\ fence_errors = <<>>
    /\ so_headings = <<>>
    /\ toc_headings = <<>>
    /\ so_errors = <<>>
    /\ ref_errors = <<>>
    /\ ExtIdle

NextOrder == SO_lint_file \/ TOC_headings

SpecOrder == InitOrder /\ [][NextOrder]_vars

----------------------------------------------------------------------------
(* check_references.py *)

\* the end of a line in the text of a document
NL == "\n"

\* "\n".join(lines): the text of a document, one token per character or word
RECURSIVE Flat(_)
Flat(doc) ==
    IF doc = <<>> THEN <<>>
    ELSE IF Len(doc) = 1 THEN doc[1]
    ELSE doc[1] \o <<NL>> \o Flat(Tail(doc))

\* \s of a pattern applied to the whole text
IsWs(c) == c \in {" ", "\t", NL}

\* \d
IsDigit(c) == c \in {"0", "1", "2", "3", "4", "5", "6", "7", "8", "9"}

\* the first position from i on that holds no whitespace (Len(s) + 1 if none)
SkipWs(s, i) ==
    IF \E j \in i..Len(s) : ~IsWs(s[j])
    THEN CHOOSE j \in i..Len(s) : ~IsWs(s[j]) /\ \A q \in i..(j - 1) : IsWs(s[q])
    ELSE Len(s) + 1

\* the first position from i on that holds no digit (Len(s) + 1 if none)
DigitsEnd(s, i) ==
    IF \E j \in i..Len(s) : ~IsDigit(s[j])
    THEN CHOOSE j \in i..Len(s) : ~IsDigit(s[j]) /\ \A q \in i..(j - 1) : IsDigit(s[q])
    ELSE Len(s) + 1

\* the last position of the line that holds position i
LineEnd(s, i) ==
    IF \E j \in i..Len(s) : s[j] = NL
    THEN (CHOOSE j \in i..Len(s) : s[j] = NL /\ \A q \in i..(j - 1) : s[q] # NL) - 1
    ELSE Len(s)

\* ^ under re.MULTILINE
AtLineStart(s, i) == i = 1 \/ s[i - 1] = NL

\* the number of lines that end before position i
LinesBefore(s, i) == Cardinality({j \in 1..(i - 1) : s[j] = NL})

\* (?m)^##\s+References\s*$ matches at position i
RefHeadingAt(s, i) ==
    /\ AtLineStart(s, i)
    /\ i + 1 <= Len(s)
    /\ s[i] = "#"
    /\ s[i + 1] = "#"
    /\ LET j == SkipWs(s, i + 2)
       IN  /\ j > i + 2
           /\ j <= Len(s)
           /\ s[j] = "References"
           /\ \A q \in (j + 1)..LineEnd(s, j) : IsWs(s[q])

\* split_references_section: the number of lines of the body, the whole
\* document if no heading is found
BodyLines(doc) ==
    LET s == Flat(doc)
    IN  IF \E i \in 1..Len(s) : RefHeadingAt(s, i)
        THEN LinesBefore(s, CHOOSE i \in 1..Len(s) :
                                RefHeadingAt(s, i)
                                    /\ \A q \in 1..(i - 1) : ~RefHeadingAt(s, q))
        ELSE Len(doc)

\* a body that is the whole document, its References section included
RF_whole_text(doc) == doc

\* split_references_section: body, as lines
RF_body(doc) == SubSeq(doc, 1, BodyLines(doc))

\* split_references_section: refs, as lines
RF_refs(doc) == SubSeq(doc, BodyLines(doc) + 1, Len(doc))

\* line.startswith("    ") or line.startswith("\t")
Indented(line) ==
    \/ Len(line) >= 4 /\ \A i \in 1..4 : line[i] = " "
    \/ Len(line) >= 1 /\ line[1] = "\t"

\* strip_code, the loop from line k on: the lines kept
RECURSIVE strip_code_from(_, _, _, _)
strip_code_from(doc, k, fenced, open_marker) ==
    IF k > Len(doc) THEN <<>>
    ELSE LET line == doc[k]
             marker == FENCE_RE(line)
         IN  IF marker # <<>> /\ ~fenced
             THEN strip_code_from(doc, k + 1, TRUE, marker)
             ELSE IF marker # <<>> /\ Closes(marker, open_marker)
             THEN strip_code_from(doc, k + 1, FALSE, <<>>)
             ELSE IF fenced
             THEN strip_code_from(doc, k + 1, fenced, open_marker)
             ELSE IF Indented(line)
             THEN strip_code_from(doc, k + 1, fenced, open_marker)
             ELSE <<line>> \o strip_code_from(doc, k + 1, fenced, open_marker)

\* check_references.strip_code
strip_code(doc) == strip_code_from(doc, 1, FALSE, <<>>)

\* REF_USE_RE = \[R(\d+)\] matches at position i of s
RefUseAt(s, i) ==
    /\ i + 3 <= Len(s)
    /\ s[i] = "["
    /\ s[i + 1] = "R"
    /\ LET c == DigitsEnd(s, i + 2)
       IN  c > i + 2 /\ c <= Len(s) /\ s[c] = "]"

\* set(REF_USE_RE.findall(...)) of the lines: the digit strings used
Used(lines) ==
    UNION {{SubSeq(lines[k], i + 2, DigitsEnd(lines[k], i + 2) - 1) :
                i \in {q \in 1..Len(lines[k]) : RefUseAt(lines[k], q)}} :
           k \in 1..Len(lines)}

\* REF_DEF_RE = ^\s*[-*]\s*\[R(\d+)\]\s+.+ under IGNORECASE and MULTILINE,
\* tried at position i of s: whether it matches, the digits, and the last
\* position of the match
REF_DEF_RE(s, i) ==
    LET a == SkipWs(s, i)
        b == SkipWs(s, a + 1)
        c == DigitsEnd(s, b + 2)
        m == SkipWs(s, c + 1)
        starts == {q \in (c + 2)..(IF m <= Len(s) THEN m ELSE Len(s)) : s[q] # NL}
        p == CHOOSE q \in starts : \A r \in starts : r <= q
        ok == /\ AtLineStart(s, i)
              /\ a <= Len(s)
              /\ s[a] \in {"-", "*"}
              /\ b + 1 <= Len(s)
              /\ s[b] = "["
              /\ s[b + 1] \in {"R", "r"}
              /\ c > b + 2
              /\ c <= Len(s)
              /\ s[c] = "]"
              /\ starts # {}
    IN  [ok |-> ok,
         id |-> IF ok THEN SubSeq(s, b + 2, c - 1) ELSE <<>>,
         end |-> IF ok THEN LineEnd(s, p) ELSE i]

\* set(REF_DEF_RE.findall(refs)), the scan from position i of s on: matches do
\* not overlap
RECURSIVE DefinedFrom(_, _)
DefinedFrom(s, i) ==
    IF i > Len(s) THEN {}
    ELSE LET m == REF_DEF_RE(s, i)
         IN  IF m.ok THEN {m.id} \cup DefinedFrom(s, m.end + 1)
             ELSE DefinedFrom(s, LineEnd(s, i) + 2)

\* set(REF_DEF_RE.findall(refs))
Defined(refs) == DefinedFrom(Flat(refs), 1)

\* int(x) of a digit string
RECURSIVE IntOf(_)
IntOf(digits) ==
    IF digits = <<>> THEN 0
    ELSE 10 * IntOf(SubSeq(digits, 1, Len(digits) - 1))
             + (CHOOSE d \in 0..9 : ToString(d) = Last(digits))

\* sorted(ids, key=int): the orders the sort can give (digit strings of one
\* value come in the order of the set's iteration)
SortedByInt(ids) ==
    {order \in [1..Cardinality(ids) -> ids] :
        /\ \A i, j \in 1..Cardinality(ids) : i # j => order[i] # order[j]
        /\ \A i, j \in 1..Cardinality(ids) : i < j => IntOf(order[i]) <= IntOf(order[j])}

\* URL_RE.search(line)
HasURL(line) ==
    \E i \in 1..Len(line) : line[i] \in {"https://example.org/a", "http://example.org/b"}

\* DATE_RE.search(line)
HasDate(line) ==
    \E i \in 1..Len(line) : line[i] \in {"(retrieved 2025-12-20)", "(Accessed 2025-12-20)"}

\* lint_file, step 3: the messages of the definition lines from line k on
RECURSIVE DefinitionErrors(_, _, _)
DefinitionErrors(p, refs, k) ==
    IF k > Len(refs) THEN <<>>
    ELSE LET line == refs[k]
             m == REF_DEF_RE(line, 1)
         IN  (IF m.ok /\ ~HasURL(line)
              THEN <<[kind |-> "reference missing URL", path |-> p, id |-> m.id,
                      line |-> Strip(line)]>>
              ELSE <<>>)
             \o (IF m.ok /\ ~HasDate(line)
                 THEN <<[kind |-> "reference missing date", path |-> p, id |-> m.id,
                         line |-> Strip(line)]>>
                 ELSE <<>>)
             \o DefinitionErrors(p, refs, k + 1)

\* steps 1 and 2 over the values of the identifiers: an identifier is
\* reported if no identifier of the other set has its value
ReferenceSetErrorsByValue(p, used, defined, missing, unused) ==
    LET miss == SelectSeq(missing, LAMBDA x : \A d \in defined : IntOf(d) # IntOf(x))
        unus == SelectSeq(unused, LAMBDA x : \A u \in used : IntOf(u) # IntOf(x))
    IN  (IF miss # <<>>
         THEN <<[kind |-> "undefined references used", path |-> p, ids |-> miss]>>
         ELSE <<>>)
        \o (IF unus # <<>>
            THEN <<[kind |-> "unused references defined", path |-> p, ids |-> unus]>>
            ELSE <<>>)

\* lint_file, steps 1 and 2: missing = sorted(used - defined, key=int) and
\* unused = sorted(defined - used, key=int), each reported if not empty
ReferenceSetErrors(p, used, defined, missing, unused) ==
    (IF used \ defined # {}
     THEN <<[kind |-> "undefined references used", path |-> p, ids |-> missing]>>
     ELSE <<>>)
    \o (IF defined \ used # {}
        THEN <<[kind |-> "unused references defined", path |-> p, ids |-> unused]>>
        ELSE <<>>)

\* check_references.lint_file: the errors, with the sorted lists missing and
\* unused
ReferencesErrors(p, doc, missing, unused) ==
    LET refs == RF_refs(doc)
        used == Used(strip_code(RF_body(doc)))
        defined == Defined(refs)
    IN  ReferenceSetErrors(p, used, defined, missing, unused)
        \o DefinitionErrors(p, refs, 1)
        \o (IF refs # <<>> /\ defined = {}
            THEN <<[kind |-> "no definitions", path |-> p]>>
            ELSE <<>>)

\* the lines the reference pass reads
L_use1 == <<"[", "R", "1", "]">>
L_use12 == <<"see", " ", "[", "R", "1", "]", "[", "R", "2", "]">>
L_refs == H2("References")
DefLine(d) ==
    <<"-", " ", "[", "R", d, "]", " ", "Title.", " ", "https://example.org/a", " ",
      "(retrieved 2025-12-20)">>
L_def1 == DefLine("1")
L_def2 == DefLine("2")
L_def3 == DefLine("3")
RefLines == {L_use1, L_use12, L_refs, L_def1, L_def2, L_def3, L_bt3}

\* check_references.lint_file
RF_lint_file ==
    /\ pc = "references"
    /\ pc' = "done"
    /\ LET used == Used(strip_code(RF_body(text)))
           defined == Defined(RF_refs(text))
       IN  \E missing \in SortedByInt(used \ defined) :
               \E unused \in SortedByInt(defined \ used) :
                   ref_errors' = ReferencesErrors(path, text, missing, unused)
    /\ UNCHANGED <<ext, path, text, in_fence, fence_marker, opened_at, fence_errors,
                   so_headings, toc_headings, so_errors>>

InitRefs ==
    /\ path = "docs/guide.md"
    /\ text \in SeqsUpTo(RefLines, MaxRefLines)
    /\ pc = "references"
    /\ in_fence = FALSE
    /\ fence_marker = <<>>
    /\ opened_at = 0
    /\ fence_errors = <<>>
    /\ so_headings = <<>>
    /\ toc_headings = <<>>
    /\ so_errors = <<>>
    /\ ref_errors = <<>>
    /\ ExtIdle

NextRefs == RF_lint_file

SpecRefs == InitRefs /\ [][NextRefs]_vars

----------------------------------------------------------------------------
(* The reference pass over identifiers with leading zeros and list items *)
(* without a title                                                       *)

\* longest document of the reference pass over these lines
MaxRefIdLines == 4

\* a definition line of the identifier digits (a sequence of digit tokens)
DefLineOf(digits) ==
    <<"-", " ", "[", "R">> \o digits
        \o <<"]", " ", "Title.", " ", "https://example.org/a", " ",
             "(retrieved 2025-12-20)">>

L_use01 == <<"[", "R", "0", "1", "]">>
L_def01 == DefLineOf(<<"0", "1">>)

\* a list item that holds the marker of R1 and nothing after it
L_bare1 == <<"-", " ", "[", "R", "1", "]">>

\* a line that uses R10 and then R2
L_use102 == <<"[", "R", "1", "0", "]", "[", "R", "2", "]">>

RefIdLines == {L_use1, L_use01, L_use102, L_refs, L_def1, L_def01, L_bare1, L_text}

InitRefIds ==
    /\ path = "docs/ids.md"
    /\ text \in SeqsUpTo(RefIdLines, MaxRefIdLines)
    /\ pc = "references"
    /\ in_fence = FALSE
    /\ fence_marker = <<>>
    /\ opened_at = 0
    /\ fence_errors = <<>>
    /\ so_headings = <<>>
    /\ toc_headings = <<>>
    /\ so_errors = <<>>
    /\ ref_errors = <<>>
    /\ ExtIdle

SpecRefIds == InitRefIds /\ [][NextRefs]_vars

----------------------------------------------------------------------------
(* check_last_updated.py: the text is a sequence of tokens, line breaks   *)
(* included, since FRONTMATTER_RE asks for the line break after "---"     *)

\* longest run of lines after the frontmatter
MaxLogLines == 3

\* \d{4}-\d{2}-\d{2}: the dates of the documents
Dates == {"2025-01-10", "2025-01-09"}

\* T[0-9:]+Z
IsTime(tok) == tok = "T10:00Z"

\* \w at the start of the token
WordStart(tok) == tok \in Dates \cup {"T10:00Z", "note", "title:", "last_updated:"}

SKIP_DIRS == {"_templates", "overrides"}

\* path.relative_to(docs_dir).parts
rel_parts(p) ==
    CASE p = "docs/_templates/TOPIC.md" -> <<"_templates", "TOPIC.md">>
      [] p = "docs/guide.md" -> <<"guide.md">>
      [] OTHER -> <<p>>

\* should_skip: a part of the path below docs_dir is in SKIP_DIRS
should_skip(p) == \E i \in 1..Len(rel_parts(p)) : rel_parts(p)[i] \in SKIP_DIRS

\* str.splitlines(): the lines of s, a line break at the end adding no line
RECURSIVE splitlines(_)
splitlines(s) ==
    IF s = <<>> THEN <<>>
    ELSE IF \E j \in 1..Len(s) : s[j] = NL
    THEN LET j == CHOOSE k \in 1..Len(s) : s[k] = NL /\ \A q \in 1..(k - 1) : s[q] # NL
         IN  <<SubSeq(s, 1, j - 1)>> \o splitlines(SubSeq(s, j + 1, Len(s)))
    ELSE <<s>>

\* FRONTMATTER_RE = (?s)^---\n(.*?)\n---\n matched at the start of s: the
\* places j of the line break that ends group 1
FrontmatterEnds(s) ==
    {j \in 3..(Len(s) - 2) :
        /\ s[1] = "---"
        /\ s[2] = NL
        /\ s[j] = NL
        /\ s[j + 1] = "---"
        /\ s[j + 2] = NL}

\* $ under re.MULTILINE at position k of s
AtLineEnd(s, k) == k = Len(s) + 1 \/ (k <= Len(s) /\ s[k] = NL)

\* LAST_UPDATED_RE = (?m)^last_updated:\s*(\d{4}-\d{2}-\d{2})\s*$ matches at
\* position i of fm
LastUpdatedAt(fm, i) ==
    /\ AtLineStart(fm, i)
    /\ fm[i] = "last_updated:"
    /\ LET d == SkipWs(fm, i + 1)
       IN  /\ d <= Len(fm)
           /\ fm[d] \in Dates
           /\ \E k \in (d + 1)..SkipWs(fm, d + 1) : AtLineEnd(fm, k)

\* parse_last_updated: <<the date>>, <<>> for None
parse_last_updated(s) ==
    IF FrontmatterEnds(s) = {} THEN <<>>
    ELSE LET j == CHOOSE k \in FrontmatterEnds(s) : \A q \in FrontmatterEnds(s) : k <= q
             fm == SubSeq(s, 3, j - 1)
             at == {i \in 1..Len(fm) : LastUpdatedAt(fm, i)}
         IN  IF at = {} THEN <<>>
             ELSE LET i == CHOOSE k \in at : \A q \in at : k <= q
                  IN  <<fm[SkipWs(fm, i + 1)]>>

\* UPDATE_LOG_H2_RE = (?m)^##\s+Update Log\s*$ matches at position i of s
UpdateLogAt(s, i) ==
    /\ AtLineStart(s, i)
    /\ i + 1 <= Len(s)
    /\ s[i] = "#"
    /\ s[i + 1] = "#"
    /\ LET j == SkipWs(s, i + 2)
       IN  /\ j > i + 2
           /\ j <= Len(s)
           /\ s[j] = "Update Log"
           /\ \E k \in (j + 1)..SkipWs(s, j + 1) : AtLineEnd(s, k)

\* m.end() of the match of UPDATE_LOG_H2_RE at i, as the first position after
\* the match: \s* takes the longest run of whitespace that ends at a line end
UpdateLogEnd(s, i) ==
    LET j == SkipWs(s, i + 2)
        ends == {k \in (j + 1)..SkipWs(s, j + 1) : AtLineEnd(s, k)}
    IN  CHOOSE k \in ends : \A q \in ends : q <= k

\* \b after position q - 1 of the line, which holds the end of a word
BoundaryAfterWord(line, q) == q > Len(line) \/ ~WordStart(line[q])

\* UPDATE_LOG_FIRST_ENTRY_RE =
\* ^\s*-\s*(?:\*\*)?(\d{4}-\d{2}-\d{2})(?:T[0-9:]+Z)?(?:\*\*)?\b matched at the
\* start of the line: <<group 1>>, <<>> if there is no match
UPDATE_LOG_FIRST_ENTRY_RE(line) ==
    LET a == SkipWs(line, 1)
        b == SkipWs(line, a + 1)
        d == IF b <= Len(line) /\ line[b] = "**" THEN b + 1 ELSE b
        q == d + 1
    IN  IF /\ a <= Len(line)
           /\ line[a] = "-"
           /\ d <= Len(line)
           /\ line[d] \in Dates
           /\ \/ BoundaryAfterWord(line, q)
              \/ /\ q <= Len(line)
                 /\ IsTime(line[q])
                 /\ \/ BoundaryAfterWord(line, q + 1)
                    \/ /\ q + 2 <= Len(line)
                       /\ line[q + 1] = "**"
                       /\ WordStart(line[q + 2])
        THEN <<line[d]>>
        ELSE <<>>

\* parse_update_log_top_date, the loop over the lines after the heading, from
\* line k on
RECURSIVE TopDateFrom(_, _)
TopDateFrom(after, k) ==
    IF k > Len(after) THEN <<>>
    ELSE IF Strip(after[k]) = <<>> THEN TopDateFrom(after, k + 1)
    ELSE IF StartsWith(after[k], <<"#", "#">>) THEN <<>>
    ELSE UPDATE_LOG_FIRST_ENTRY_RE(after[k])

\* parse_update_log_top_date: <<the date>>, <<>> for None
parse_update_log_top_date(s) ==
    LET at == {i \in 1..Len(s) : UpdateLogAt(s, i)}
    IN  IF at = {} THEN <<>>
        ELSE LET i == CHOOSE k \in at : \A q \in at : k <= q
                 e == UpdateLogEnd(s, i)
             IN  TopDateFrom(splitlines(SubSeq(s, e, Len(s))), 1)

\* a date check that looks at the Update Log first
DateErrorsLogFirst(p, s) ==
    LET last_updated == parse_last_updated(s)
        top_date == parse_update_log_top_date(s)
    IN  IF top_date = <<>>
        THEN <<[kind |-> "missing or invalid Update Log top entry date", path |-> p]>>
        ELSE IF last_updated = <<>>
        THEN <<[kind |-> "missing frontmatter last_updated", path |-> p]>>
        ELSE IF top_date # last_updated
        THEN <<[kind |-> "last_updated does not match", path |-> p,
                last_updated |-> last_updated[1], top_date |-> top_date[1]]>>
        ELSE <<>>

\* main, the body of the loop for a document that is not skipped: the errors
\* it appends
DateErrors(p, s) ==
    LET last_updated == parse_last_updated(s)
        top_date == parse_update_log_top_date(s)
    IN  IF last_updated = <<>>
        THEN <<[kind |-> "missing frontmatter last_updated", path |-> p]>>
        ELSE IF top_date = <<>>
        THEN <<[kind |-> "missing or invalid Update Log top entry date", path |-> p]>>
        ELSE IF top_date # last_updated
        THEN <<[kind |-> "last_updated does not match", path |-> p,
                last_updated |-> last_updated[1], top_date |-> top_date[1]]>>
        ELSE <<>>

\* the lines of the date pass
L_fm == <<"---">>
L_field(d) == <<"last_updated:", " ", d>>
L_title == <<"title:", " ", "note">>
L_log == H2("Update Log")
L_bold(d) == <<"-", " ", "**", d, "**", ":", " ", "note">>
L_dated(d) == <<"-", " ", d, " ", "note">>

\* what a document starts with: no frontmatter, a frontmatter with the
\* field, without it, with two fields, one that is never closed, one after a
\* line of text, the field after the frontmatter, and an empty frontmatter
\* followed by a second closing line
Frontmatters ==
    {<<>>,
     <<L_fm, L_field("2025-01-10"), L_fm>>,
     <<L_fm, L_title, L_field("2025-01-09"), L_fm>>,
     <<L_fm, L_title, L_fm>>,
     <<L_fm, L_field("2025-01-09"), L_field("2025-01-10"), L_fm>>,
     <<L_fm, L_field("2025-01-10")>>,
     <<L_text, L_fm, L_field("2025-01-10"), L_fm>>,
     <<L_fm, L_title, L_fm, L_field("2025-01-10")>>,
     <<L_fm, L_fm, L_field("2025-01-10"), L_fm>>}

\* the lines after the frontmatter
LogLines ==
    {L_log, L_bold("2025-01-10"), L_dated("2025-01-09"), <<"-", " ", "note">>,
     <<"2025-01-10", " ", "note">>, H2("See Also"), <<>>}

\* main: a document that should_skip excludes
DatesSkip ==
    /\ pc = "dates"
    /\ should_skip(path)
    /\ pc' = "done"
    /\ UNCHANGED <<path, text, core, ext>>

\* main: the body of the loop for a document that is checked
DatesCheck ==
    /\ pc = "dates"
    /\ ~should_skip(path)
    /\ pc' = "done"
    /\ date_errors' = DateErrors(path, text)
    /\ UNCHANGED <<path, text, core, links_vars, toc_vars, scan_vars, loops_vars, driver_vars>>

InitDates ==
    /\ \/ /\ path = "docs/guide.md"
          /\ \E fm \in Frontmatters : \E rest \in SeqsUpTo(LogLines, MaxLogLines) :
                \E final_newline \in BOOLEAN :
                    text = Flat(fm \o rest)
                               \o (IF final_newline /\ fm \o rest # <<>>
                                   THEN <<NL>> ELSE <<>>)
       \/ /\ path = "docs/_templates/TOPIC.md"
          /\ \E fm \in Frontmatters : text = Flat(fm) \o <<NL>>
    /\ pc = "dates"
    /\ CoreIdle
    /\ IdleBut("none")

NextDates == DatesSkip \/ DatesCheck

SpecDates == InitDates /\ [][NextDates]_vars

----------------------------------------------------------------------------
(* check_links.py *)

\* longest link target, in tokens
MaxTargetLen == 3

SKIP_PREFIXES == {"http://", "https://", "mailto:", "tel:"}

\* ":" in the token
HasColon(tok) == tok \in SKIP_PREFIXES \cup {":"}

\* strip_fenced_code, the body of the loop: in_fence, fence_marker and out
\* after the line
strip_fenced_code_step(st, line) ==
    LET marker == FENCE_RE(line)
    IN  IF marker # <<>> /\ ~st.in_fence
        THEN [st EXCEPT !.in_fence = TRUE, !.fence_marker = marker]
        ELSE IF /\ marker # <<>>
                /\ StartsWith(marker, SubSeq(st.fence_marker, 1, 1))
                /\ Len(marker) >= Len(st.fence_marker)
        THEN [st EXCEPT !.in_fence = FALSE, !.fence_marker = <<>>]
        ELSE IF st.in_fence THEN st
        ELSE IF Indented(line) THEN st
        ELSE [st EXCEPT !.out = Append(@, line)]

\* strip_fenced_code, the loop from line k on
RECURSIVE strip_fenced_code_loop(_, _, _)
strip_fenced_code_loop(st, doc, k) ==
    IF k > Len(doc) THEN st
    ELSE strip_fenced_code_loop(strip_fenced_code_step(st, doc[k]), doc, k + 1)

\* the state of a fence loop before the first line
LoopStart == [in_fence |-> FALSE, fence_marker |-> <<>>, out |-> <<>>]

\* strip_fenced_code: "\n".join(out), as tokens
strip_fenced_code(doc) == Flat(strip_fenced_code_loop(LoopStart, doc, 1).out)

\* the first position from i on that holds c (Len(s) + 1 if none)
Find(s, c, i) ==
    IF \E j \in i..Len(s) : s[j] = c
    THEN CHOOSE j \in i..Len(s) : s[j] = c /\ \A q \in i..(j - 1) : s[q] # c
    ELSE Len(s) + 1

\* LINK_RE = \[[^\]]*\]\(([^)]+)\) tried at position i of s: whether it
\* matches, and the position of the closing parenthesis
LINK_RE(s, i) ==
    LET j == Find(s, "]", i + 1)
        k == Find(s, ")", j + 2)
    IN  [ok |-> /\ i <= Len(s)
                /\ s[i] = "["
                /\ j + 1 <= Len(s)
                /\ s[j + 1] = "("
                /\ k <= Len(s)
                /\ k > j + 2,
         from |-> j + 2,
         end |-> k]

\* LINK_RE.findall(s), the scan from position i on: group 1 of the matches
RECURSIVE LinkFindAll(_, _)
LinkFindAll(s, i) ==
    IF i > Len(s) THEN <<>>
    ELSE LET m == LINK_RE(s, i)
         IN  IF m.ok
             THEN <<SubSeq(s, m.from, m.end - 1)>> \o LinkFindAll(s, m.end + 1)
             ELSE LinkFindAll(s, i + 1)

\* str.strip() with whitespace of any kind
StripWs(s) ==
    LET keep == {i \in 1..Len(s) : ~IsWs(s[i])}
    IN  IF keep = {} THEN <<>>
        ELSE SubSeq(s, CHOOSE i \in keep : \A j \in keep : i <= j,
                       CHOOSE i \in keep : \A j \in keep : i >= j)

\* target.strip("<>")
StripAngles(s) ==
    LET keep == {i \in 1..Len(s) : s[i] \notin {"<", ">"}}
    IN  IF keep = {} THEN <<>>
        ELSE SubSeq(s, CHOOSE i \in keep : \A j \in keep : i <= j,
                       CHOOSE i \in keep : \A j \in keep : i >= j)

\* s.split(c, 1)[0]
SplitFirst(s, c) == SubSeq(s, 1, Find(s, c, 1) - 1)

\* a link loop without the test of the colon
LinkFromNoColonTest(md, raws, exists) ==
    LET RECURSIVE go(_)
        go(k) ==
            IF k > Len(raws) THEN [resolved |-> <<>>, BROKEN |-> <<>>]
            ELSE LET stripped == StripWs(raws[k])
                     cut == IF (\E i \in 1..Len(stripped) : stripped[i] = " ")
                                /\ ~StartsWith(stripped, <<"<">>)
                            THEN StripWs(SplitFirst(stripped, " "))
                            ELSE stripped
                     target == StripAngles(cut)
                     path_part == SplitFirst(target, "#")
                     rest == go(k + 1)
                 IN  IF target = <<>> \/ target[1] = "#" THEN rest
                     ELSE IF target[1] \in SKIP_PREFIXES THEN rest
                     ELSE IF path_part = <<>> THEN rest
                     ELSE [resolved |-> <<path_part>> \o rest.resolved,
                           BROKEN |->
                               (IF ~exists
                                THEN <<[md |-> md, target |-> target,
                                        resolved |-> path_part]>>
                                ELSE <<>>) \o rest.BROKEN]
    IN  go(1)

\* the loop over LINK_RE.findall(text), from the k-th target on: what is
\* handed to resolution and what is appended to BROKEN
LinkFrom(md, raws, exists) ==
    LET RECURSIVE go(_)
        go(k) ==
            IF k > Len(raws) THEN [resolved |-> <<>>, BROKEN |-> <<>>]
            ELSE LET stripped == StripWs(raws[k])
                     cut == IF (\E i \in 1..Len(stripped) : stripped[i] = " ")
                                /\ ~StartsWith(stripped, <<"<">>)
                            THEN StripWs(SplitFirst(stripped, " "))
                            ELSE stripped
                     target == StripAngles(cut)
                     path_part == SplitFirst(target, "#")
                     rest == go(k + 1)
                 IN  IF target = <<>> \/ target[1] = "#" THEN rest
                     ELSE IF target[1] \in SKIP_PREFIXES THEN rest
                     ELSE IF path_part = <<>> THEN rest
                     ELSE IF /\ \E i \in 1..Len(path_part) : HasColon(path_part[i])
                             /\ path_part[1] \notin {"./", "../"}
                     THEN rest
                     ELSE [resolved |-> <<path_part>> \o rest.resolved,
                           BROKEN |->
                               (IF ~exists
                                THEN <<[md |-> md, target |-> target,
                                        resolved |-> path_part]>>
                                ELSE <<>>) \o rest.BROKEN]
    IN  go(1)

\* the tokens of a link target
TargetTokens ==
    {" ", "<", ">", "#", ":", "./", "../", "https://", "mailto:", "a.md", "frag"}

\* a line that holds the link [x](raw)
LinkLine(raw) == <<"[", "x", "]", "(">> \o raw \o <<")">>

\* the documents that hold the link: alone, in a closed fence, after a closed
\* fence and before a second link, and indented by four spaces
LinkDocs(raw) ==
    {<<LinkLine(raw)>>,
     <<L_bt3, LinkLine(raw), L_bt3>>,
     <<L_bt3, L_bt4, LinkLine(raw), LinkLine(<<"./", "a.md">>)>>,
     <<<<" ", " ", " ", " ">> \o LinkLine(raw)>>}

\* the body of the loop over MD_FILES, for a document that exists
LK_check ==
    /\ pc = "links"
    /\ pc' = "done"
    /\ LET r == LinkFrom(path, LinkFindAll(strip_fenced_code(text), 1), fs)
       IN  /\ resolved' = r.resolved
           /\ BROKEN' = r.BROKEN
    /\ UNCHANGED <<path, text, core, dates_vars, fs, toc_vars, scan_vars, loops_vars,
                   driver_vars>>

InitLinks ==
    /\ path = "README.md"
    /\ \E raw \in SeqsUpTo(TargetTokens, MaxTargetLen) : text \in LinkDocs(raw)
    /\ pc = "links"
    /\ CoreIdle
    /\ IdleBut("links")
    /\ fs \in BOOLEAN
    /\ resolved = <<>>
    /\ BROKEN = <<>>

NextLinks == LK_check

SpecLinks == InitLinks /\ [][NextLinks]_vars

----------------------------------------------------------------------------
(* check_toc.py: slugify and build_anchor_set *)

\* longest text handed to slugify, in characters
MaxSlugLen == 4

\* most headings of a document
MaxHeadings == 3

\* the characters of a heading text: a letter in both cases, a digit, the
\* underscore, the hyphen, the space and a punctuation mark
SlugChars == {"f", "F", "1", "_", "-", " ", "!"}

\* str.lower(), on a character or on a word of letters
Lower(c) ==
    CASE c = "F" -> "f"
      [] c = "Table" -> "table"
      [] c = "Contents" -> "contents"
      [] OTHER -> c

\* \w: the character, or every character of the word, is a word character
IsWord(c) ==
    c \in {"f", "F", "1", "_", "Table", "of", "Contents", "table", "contents"}

\* re.sub(r"\s+", "-", s)
RECURSIVE WsToHyphen(_)
WsToHyphen(s) ==
    IF s = <<>> THEN <<>>
    ELSE IF IsWs(s[1]) THEN <<"-">> \o WsToHyphen(SubSeq(s, SkipWs(s, 1), Len(s)))
    ELSE <<s[1]>> \o WsToHyphen(Tail(s))

\* re.sub(r"-{2,}", "-", s)
RECURSIVE CollapseHyphens(_)
CollapseHyphens(s) ==
    IF s = <<>> THEN <<>>
    ELSE IF s[1] = "-"
    THEN <<"-">> \o CollapseHyphens(SubSeq(s, LeadingRun(s, "-") + 1, Len(s)))
    ELSE <<s[1]>> \o CollapseHyphens(Tail(s))

\* str.strip("-")
StripHyphens(s) ==
    LET keep == {i \in 1..Len(s) : s[i] # "-"}
    IN  IF keep = {} THEN <<>>
        ELSE SubSeq(s, CHOOSE i \in keep : \A j \in keep : i <= j,
                       CHOOSE i \in keep : \A j \in keep : i >= j)

\* a slugify that keeps the hyphens at the ends
slugify_keeps_edge_hyphens(t) ==
    LET lowered == [i \in 1..Len(StripWs(t)) |-> Lower(StripWs(t)[i])]
        kept == SelectSeq(lowered, LAMBDA c : IsWord(c) \/ IsWs(c) \/ c = "-")
    IN  CollapseHyphens(WsToHyphen(kept))

\* slugify
slugify(t) ==
    LET lowered == [i \in 1..Len(StripWs(t)) |-> Lower(StripWs(t)[i])]
        kept == SelectSeq(lowered, LAMBDA c : IsWord(c) \/ IsWs(c) \/ c = "-")
    IN  StripHyphens(CollapseHyphens(WsToHyphen(kept)))

\* str(n), as characters
RECURSIVE Digits(_)
Digits(n) == IF n < 10 THEN <<ToString(n)>> ELSE Digits(n \div 10) \o <<ToString(n % 10)>>

\* a turn of the loop that numbers the repetitions of a base slug from 2
build_anchor_step_from_two(cnt, heading) ==
    LET base == slugify(heading)
    IN  IF base \in DOMAIN cnt
        THEN [counts |-> [cnt EXCEPT ![base] = @ + 1],
              anchor |-> <<"#">> \o base \o <<"-">> \o Digits(cnt[base] + 2)]
        ELSE [counts |-> [b \in DOMAIN cnt \cup {base} |->
                             IF b = base THEN 0 ELSE cnt[b]],
              anchor |-> <<"#">> \o base]

\* build_anchor_set, a turn of the loop: counts after it and the anchor added
build_anchor_step(cnt, heading) ==
    LET base == slugify(heading)
    IN  IF base \in DOMAIN cnt
        THEN [counts |-> [cnt EXCEPT ![base] = @ + 1],
              anchor |-> <<"#">> \o base \o <<"-">> \o Digits(cnt[base] + 1)]
        ELSE [counts |-> [b \in DOMAIN cnt \cup {base} |->
                             IF b = base THEN 0 ELSE cnt[b]],
              anchor |-> <<"#">> \o base]

\* the heading texts of the anchor pass
HeadingTexts ==
    {<<"F">>, <<"f">>, <<"f", " ", "1">>, <<"f", "-", "1">>, <<"f", "!">>, <<"1">>}

\* a call of slugify, on the text or on the result of the call before
SlugifyCall ==
    /\ pc = "slugify"
    /\ Len(slugs) < 3
    /\ slugs' = Append(slugs, slugify(Last(slugs)))
    /\ UNCHANGED <<path, text, pc, core, dates_vars, links_vars, ba_headings,
                   counts, anchors, assigned, loops_vars, driver_vars,
                   scan_vars>>

InitSlug ==
    /\ path = "docs/guide.md"
    /\ text = <<>>
    /\ pc = "slugify"
    /\ CoreIdle
    /\ IdleBut("toc")
    /\ slugs \in {<<t>> : t \in SeqsUpTo(SlugChars, MaxSlugLen)}
    /\ ba_headings = <<>>
    /\ counts = <<>>
    /\ anchors = {}
    /\ assigned = <<>>

NextSlug == SlugifyCall

SpecSlug == InitSlug /\ [][NextSlug]_vars

\* build_anchor_set: a turn of the loop over headings
BuildAnchorLoop ==
    /\ pc = "anchors"
    /\ Len(assigned) < Len(ba_headings)
    /\ LET r == build_anchor_step(counts, ba_headings[Len(assigned) + 1])
       IN  /\ counts' = r.counts
           /\ anchors' = anchors \cup {r.anchor}
           /\ assigned' = Append(assigned, r.anchor)
    /\ UNCHANGED <<path, text, pc, core, dates_vars, links_vars, slugs,
                   ba_headings, loops_vars, driver_vars, scan_vars>>

\* build_anchor_set: return anchors
BuildAnchorReturn ==
    /\ pc = "anchors"
    /\ Len(assigned) = Len(ba_headings)
    /\ pc' = "done"
    /\ UNCHANGED <<path, text, core, ext>>

InitAnchors ==
    /\ path = "docs/guide.md"
    /\ text = <<>>
    /\ pc = "anchors"
    /\ CoreIdle
    /\ IdleBut("toc")
    /\ slugs = <<>>
    /\ ba_headings \in SeqsUpTo(HeadingTexts, MaxHeadings)
    /\ counts = <<>>
    /\ anchors = {}
    /\ assigned = <<>>

NextAnchors == BuildAnchorLoop \/ BuildAnchorReturn

SpecAnchors == InitAnchors /\ [][NextAnchors]_vars

----------------------------------------------------------------------------
(* The fence-tracking loops of the five passes, reading one document line *)
(* by line side by side                                                   *)

\* longest document read by the five loops side by side
MaxLoopLines == 4

\* a strip_code whose loop takes a fence line that does not close the open
\* fence for a new opening
strip_code_step_reopens(st, line) ==
    LET marker == FENCE_RE(line)
    IN  IF marker # <<>> /\ ~st.in_fence
        THEN [st EXCEPT !.in_fence = TRUE, !.fence_marker = marker]
        ELSE IF /\ marker # <<>>
                /\ StartsWith(marker, SubSeq(st.fence_marker, 1, 1))
                /\ Len(marker) >= Len(st.fence_marker)
        THEN [st EXCEPT !.in_fence = FALSE, !.fence_marker = <<>>]
        ELSE IF marker # <<>>
        THEN [st EXCEPT !.fence_marker = marker]
        ELSE IF st.in_fence THEN st
        ELSE IF Indented(line) THEN st
        ELSE [st EXCEPT !.out = Append(@, line)]

\* check_references.strip_code, the body of the loop: in_fence, fence_marker
\* and out after the line
strip_code_step(st, line) ==
    LET marker == FENCE_RE(line)
    IN  IF marker # <<>> /\ ~st.in_fence
        THEN [st EXCEPT !.in_fence = TRUE, !.fence_marker = marker]
        ELSE IF /\ marker # <<>>
                /\ StartsWith(marker, SubSeq(st.fence_marker, 1, 1))
                /\ Len(marker) >= Len(st.fence_marker)
        THEN [st EXCEPT !.in_fence = FALSE, !.fence_marker = <<>>]
        ELSE IF st.in_fence THEN st
        ELSE IF Indented(line) THEN st
        ELSE [st EXCEPT !.out = Append(@, line)]

\* an extract_headings whose loop closes a fence on any marker that is long
\* enough
SO_extract_step_any_char(st, line) ==
    LET marker == FENCE_RE(line)
    IN  IF marker # <<>> /\ ~st.in_fence
        THEN [st EXCEPT !.in_fence = TRUE, !.fence_marker = marker]
        ELSE IF marker # <<>> /\ Len(marker) >= Len(st.fence_marker)
        THEN [st EXCEPT !.in_fence = FALSE, !.fence_marker = <<>>]
        ELSE IF st.in_fence THEN st
        ELSE IF H2_RE_matches(line)
        THEN [st EXCEPT !.out = Append(@, H2_RE_heading(line))]
        ELSE st

\* check_section_order.extract_headings, the body of the loop: in_fence,
\* fence_marker and headings (out) after the line
SO_extract_step(st, line) ==
    LET marker == FENCE_RE(line)
    IN  IF marker # <<>> /\ ~st.in_fence
        THEN [st EXCEPT !.in_fence = TRUE, !.fence_marker = marker]
        ELSE IF /\ marker # <<>>
                /\ StartsWith(marker, SubSeq(st.fence_marker, 1, 1))
                /\ Len(marker) >= Len(st.fence_marker)
        THEN [st EXCEPT !.in_fence = FALSE, !.fence_marker = <<>>]
        ELSE IF st.in_fence THEN st
        ELSE IF H2_RE_matches(line)
        THEN [st EXCEPT !.out = Append(@, H2_RE_heading(line))]
        ELSE st

\* check_toc.extract_headings, the body of the loop: in_fence, fence_marker
\* and headings (out) after the line
TOC_extract_step(st, line) ==
    LET marker == FENCE_RE(line)
    IN  IF marker # <<>> /\ ~st.in_fence
        THEN [st EXCEPT !.in_fence = TRUE, !.fence_marker = marker]
        ELSE IF /\ marker # <<>>
                /\ StartsWith(marker, SubSeq(st.fence_marker, 1, 1))
                /\ Len(marker) >= Len(st.fence_marker)
        THEN [st EXCEPT !.in_fence = FALSE, !.fence_marker = <<>>]
        ELSE IF st.in_fence THEN st
        ELSE IF HEADING_RE_matches(line)
        THEN [st EXCEPT !.out = Append(@, HEADING_RE_text(line))]
        ELSE st

\* the lines the five loops read
L_h2 == H2("Purpose")
L_indented == <<" ", " ", " ", " ", "text">>
LoopLines == {L_bt3, L_bt4, L_td3, L_bt2, L_h2, L_indented, L_text}

\* the five loops, one turn each on the next line of the document
LoopsLine(line) ==
    /\ pc = "loops"
    /\ Len(text) < MaxLoopLines
    /\ text' = Append(text, line)
    /\ LET st == FenceStep([in_fence |-> in_fence, fence_marker |-> fence_marker,
                            opened_at |-> opened_at], Len(text) + 1, line)
       IN  /\ in_fence' = st.in_fence
           /\ fence_marker' = st.fence_marker
           /\ opened_at' = st.opened_at
    /\ loops' = [strip_code |-> strip_code_step(loops.strip_code, line),
                 strip_fenced_code |->
                     strip_fenced_code_step(loops.strip_fenced_code, line),
                 so_extract_headings |->
                     SO_extract_step(loops.so_extract_headings, line),
                 toc_extract_headings |->
                     TOC_extract_step(loops.toc_extract_headings, line)]
    /\ UNCHANGED <<path, pc, fence_errors, so_headings, toc_headings, so_errors,
                   ref_errors, dates_vars, links_vars, toc_vars, scan_vars, driver_vars>>

\* the end of the document: check_fences reports, the other loops return
LoopsEnd ==
    /\ pc = "loops"
    /\ pc' = "done"
    /\ fence_errors' =
           IF in_fence
           THEN <<[kind |-> "unclosed fence", path |-> path, line |-> opened_at]>>
           ELSE <<>>
    /\ UNCHANGED <<path, text, in_fence, fence_marker, opened_at, so_headings,
                   toc_headings, so_errors, ref_errors, ext>>

InitLoops ==
    /\ path = "README.md"
    /\ text = <<>>
    /\ pc = "loops"
    /\ CoreIdle
    /\ IdleBut("loops")
    /\ loops = [strip_code |-> LoopStart, strip_fenced_code |-> LoopStart,
                so_extract_headings |-> LoopStart,
                toc_extract_headings |-> LoopStart]

NextLoops ==
    \/ \E line \in LoopLines : LoopsLine(line)
    \/ LoopsEnd

SpecLoops == InitLoops /\ [][NextLoops]_vars

----------------------------------------------------------------------------
(* The drivers: main of check_fences and main of check_section_order call *)
(* lint_file on one document after the other                              *)

\* most documents handed to a driver
MaxFiles == 2

\* a lint_file that starts from the fence state the call before it left
lint_file_entry_keeps_fence ==
    [in_fence |-> in_fence, fence_marker |-> fence_marker, opened_at |-> opened_at]

\* check_fences.lint_file: in_fence, fence_marker and opened_at before the loop
lint_file_entry ==
    [in_fence |-> FALSE, fence_marker |-> <<>>, opened_at |-> 0]

\* the documents of the fence driver: a fence left open, a lone fence line, a
\* closed fence, no fence
FenceFiles ==
    {[path |-> "README.md", text |-> <<L_bt3, L_text>>],
     [path |-> "AGENTS.md", text |-> <<L_bt3>>],
     [path |-> "docs/a.md", text |-> <<L_text, L_bt4, L_bt4>>],
     [path |-> "docs/b.md", text |-> <<L_text>>]}

\* the documents of the section-order driver: the required headings, the
\* required headings and a fence left open after them, the required headings
\* without the third, the required headings after a closing fence line
OrderFiles ==
    {[path |-> "a.md", text |-> REQUIRED_HEADINGS],
     [path |-> "b.md", text |-> REQUIRED_HEADINGS \o <<L_bt3>>],
     [path |-> "c.md", text |-> DeleteAt(REQUIRED_HEADINGS, 3)],
     [path |-> "d.md", text |-> <<L_bt3, L_bt3>> \o REQUIRED_HEADINGS]}

\* check_fences.main: the next turn of the loop over MD_FILES calls lint_file
F_main_call ==
    /\ pc = "main"
    /\ checked < Len(md_files)
    /\ checked' = checked + 1
    /\ path' = md_files[checked + 1].path
    /\ text' = md_files[checked + 1].text
    /\ in_fence' = lint_file_entry.in_fence
    /\ fence_marker' = lint_file_entry.fence_marker
    /\ opened_at' = lint_file_entry.opened_at
    /\ fence_errors' = <<>>
    /\ lint_idx' = 0
    /\ pc' = "lint_file"
    /\ UNCHANGED <<md_files, all_errors, so_headings, toc_headings, so_errors,
                   ref_errors, dates_vars, links_vars, toc_vars, scan_vars, loops_vars>>

\* check_fences.lint_file: one turn of the loop over the lines
F_lint_line ==
    /\ pc = "lint_file"
    /\ lint_idx < Len(text)
    /\ lint_idx' = lint_idx + 1
    /\ LET st == FenceStep([in_fence |-> in_fence, fence_marker |-> fence_marker,
                            opened_at |-> opened_at], lint_idx + 1, text[lint_idx + 1])
       IN  /\ in_fence' = st.in_fence
           /\ fence_marker' = st.fence_marker
           /\ opened_at' = st.opened_at
    /\ UNCHANGED <<path, text, pc, md_files, checked, all_errors, fence_errors,
                   so_headings, toc_headings, so_errors, ref_errors, dates_vars,
                   links_vars, toc_vars, scan_vars, loops_vars>>

\* check_fences.lint_file returns and main extends all_errors
F_lint_return ==
    /\ pc = "lint_file"
    /\ lint_idx = Len(text)
    /\ pc' = "main"
    /\ LET errors == IF in_fence
                     THEN <<[kind |-> "unclosed fence", path |-> path,
                             line |-> opened_at]>>
                     ELSE <<>>
       IN  /\ fence_errors' = errors
           /\ all_errors' = all_errors \o errors
    /\ UNCHANGED <<path, text, lint_idx, md_files, checked, in_fence, fence_marker,
                   opened_at, so_headings, toc_headings, so_errors, ref_errors,
                   dates_vars, links_vars, toc_vars, scan_vars, loops_vars>>

\* check_fences.main: the loop is over
F_main_return ==
    /\ pc = "main"
    /\ checked = Len(md_files)
    /\ pc' = "main_return"
    /\ UNCHANGED <<path, text, core, ext>>

\* check_section_order.main: the next turn of the loop over md_files calls
\* lint_file, which calls extract_headings (checked counts the turns)
SO_main_call ==
    /\ pc = "so_main"
    /\ checked < Len(md_files)
    /\ checked' = checked + 1
    /\ path' = md_files[checked + 1].path
    /\ text' = md_files[checked + 1].text
    /\ in_fence' = FALSE
    /\ fence_marker' = <<>>
    /\ so_headings' = <<>>
    /\ so_errors' = <<>>
    /\ lint_idx' = 0
    /\ pc' = "extract_headings"
    /\ UNCHANGED <<md_files, all_errors, opened_at, fence_errors, toc_headings,
                   ref_errors, dates_vars, links_vars, toc_vars, scan_vars, loops_vars>>

\* check_section_order.extract_headings: one turn of the loop over the lines
SO_extract_line ==
    /\ pc = "extract_headings"
    /\ lint_idx < Len(text)
    /\ lint_idx' = lint_idx + 1
    /\ LET st == SO_extract_step([in_fence |-> in_fence,
                                  fence_marker |-> fence_marker,
                                  out |-> so_headings], text[lint_idx + 1])
       IN  /\ in_fence' = st.in_fence
           /\ fence_marker' = st.fence_marker
           /\ so_headings' = st.out
    /\ UNCHANGED <<path, text, pc, md_files, checked, all_errors, opened_at,
                   fence_errors, toc_headings, so_errors, ref_errors, dates_vars,
                   links_vars, toc_vars, scan_vars, loops_vars>>

\* check_section_order.lint_file checks the headings and returns, and main
\* extends all_errors
SO_lint_return ==
    /\ pc = "extract_headings"
    /\ lint_idx = Len(text)
    /\ pc' = "so_main"
    /\ so_errors' = SectionOrderErrors(path, text, so_headings)
    /\ all_errors' = all_errors \o SectionOrderErrors(path, text, so_headings)
    /\ UNCHANGED <<path, text, lint_idx, md_files, checked, in_fence, fence_marker,
                   opened_at, fence_errors, so_headings, toc_headings, ref_errors,
                   dates_vars, links_vars, toc_vars, scan_vars, loops_vars>>

\* check_section_order.main: the loop is over
SO_main_return ==
    /\ pc = "so_main"
    /\ checked = Len(md_files)
    /\ pc' = "so_main_return"
    /\ UNCHANGED <<path, text, core, ext>>

InitDriver ==
    /\ \/ pc = "main" /\ md_files \in SeqsUpTo(FenceFiles, MaxFiles)
       \/ /\ pc = "so_main"
          /\ md_files \in SeqsUpTo(OrderFiles, MaxFiles) \ {<<>>}
    /\ path = ""
    /\ text = <<>>
    /\ checked = 0
    /\ all_errors = <<>>
    /\ lint_idx = 0
    /\ CoreIdle
    /\ IdleBut("driver")

NextDriver ==
    \/ F_main_call
    \/ F_lint_line
    \/ F_lint_return
    \/ F_main_return
    \/ SO_main_call
    \/ SO_extract_line
    \/ SO_lint_return
    \/ SO_main_return

SpecDriver == InitDriver /\ [][NextDriver]_vars

----------------------------------------------------------------------------
(* check_toc.lint_file: the scan of the table of contents *)

\* longest document of the table-of-contents scan
MaxTocLines == 4

TOC_HEADINGS ==
    {<<"#", "#", " ", "Table", " ", "of", " ", "Contents">>,
     <<"#", "#", " ", "Contents">>}

\* TOC_LINK_RE = \[[^\]]+\]\((#[^)]+)\) tried at position i of s: whether it
\* matches, and the position of the closing parenthesis
TOC_LINK_RE(s, i) ==
    LET j == Find(s, "]", i + 1)
        k == Find(s, ")", j + 2)
    IN  [ok |-> /\ i <= Len(s)
                /\ s[i] = "["
                /\ j > i + 1
                /\ j + 2 <= Len(s)
                /\ s[j + 1] = "("
                /\ s[j + 2] = "#"
                /\ k <= Len(s)
                /\ k > j + 3,
         from |-> j + 2,
         end |-> k]

\* TOC_LINK_RE.findall(line), the scan from position i on: group 1 of the
\* matches
RECURSIVE TocLinkFindAll(_, _)
TocLinkFindAll(s, i) ==
    IF i > Len(s) THEN <<>>
    ELSE LET m == TOC_LINK_RE(s, i)
         IN  IF m.ok
             THEN <<SubSeq(s, m.from, m.end - 1)>> \o TocLinkFindAll(s, m.end + 1)
             ELSE TocLinkFindAll(s, i + 1)

\* build_anchor_set, the loop from heading k on
RECURSIVE build_anchor_loop(_, _, _)
build_anchor_loop(headings, k, st) ==
    IF k > Len(headings) THEN st
    ELSE LET r == build_anchor_step(st.counts, headings[k])
         IN  build_anchor_loop(headings, k + 1,
                               [counts |-> r.counts,
                                anchors |-> st.anchors \cup {r.anchor}])

\* build_anchor_set
build_anchor_set(headings) ==
    build_anchor_loop(headings, 1, [counts |-> <<>>, anchors |-> {}]).anchors

\* the messages of the anchors of found, in order, that aset does not hold
RECURSIVE AnchorsNotFound(_, _, _)
AnchorsNotFound(p, found, aset) ==
    IF found = <<>> THEN <<>>
    ELSE (IF found[1] \notin aset
          THEN <<[kind |-> "TOC anchor not found", path |-> p, anchor |-> found[1]]>>
          ELSE <<>>)
         \o AnchorsNotFound(p, SubSeq(found, 2, Len(found)), aset)

\* a scan that checks the links of the line that ends the region
TOC_scan_step_checks_last_line(st, p, line, aset) ==
    LET marker == FENCE_RE(line)
    IN  IF marker # <<>> /\ ~st.in_fence
        THEN [st EXCEPT !.in_fence = TRUE, !.fence_marker = marker]
        ELSE IF /\ marker # <<>>
                /\ StartsWith(marker, SubSeq(st.fence_marker, 1, 1))
                /\ Len(marker) >= Len(st.fence_marker)
        THEN [st EXCEPT !.in_fence = FALSE, !.fence_marker = <<>>]
        ELSE IF st.in_fence THEN st
        ELSE IF Strip(line) \in TOC_HEADINGS THEN [st EXCEPT !.in_toc = TRUE]
        ELSE IF ~st.in_toc THEN st
        ELSE [st EXCEPT !.in_toc = ~StartsWith(line, <<"#">>),
                        !.errors = @ \o AnchorsNotFound(p, TocLinkFindAll(line, 1), aset)]

\* lint_file, the body of the loop over the lines: in_fence, fence_marker,
\* in_toc and errors after the line
TOC_scan_step(st, p, line, aset) ==
    LET marker == FENCE_RE(line)
    IN  IF marker # <<>> /\ ~st.in_fence
        THEN [st EXCEPT !.in_fence = TRUE, !.fence_marker = marker]
        ELSE IF /\ marker # <<>>
                /\ StartsWith(marker, SubSeq(st.fence_marker, 1, 1))
                /\ Len(marker) >= Len(st.fence_marker)
        THEN [st EXCEPT !.in_fence = FALSE, !.fence_marker = <<>>]
        ELSE IF st.in_fence THEN st
        ELSE IF Strip(line) \in TOC_HEADINGS THEN [st EXCEPT !.in_toc = TRUE]
        ELSE IF st.in_toc /\ StartsWith(line, <<"#">>)
        THEN [st EXCEPT !.in_toc = FALSE]
        ELSE IF ~st.in_toc THEN st
        ELSE [st EXCEPT !.errors = @ \o AnchorsNotFound(p, TocLinkFindAll(line, 1), aset)]

\* the lines the scan reads: the two headings that start a table of contents
\* (one of them between spaces), a heading, a line that starts with "#" and
\* holds a link, a line of three links, a link to the anchor of the first
\* heading, a fence line
L_toc == <<"#", "#", " ", "Table", " ", "of", " ", "Contents">>
L_contents_sp == <<" ", "#", "#", " ", "Contents", " ">>
L_hF == <<"#", " ", "F">>
L_tag_link == <<"#", "1", " ", "[", "x", "]", "(", "#", "1", ")">>
L_links ==
    <<"[", "x", "]", "(", "#", "1", ")", " ", "[", "z", "]", "(", "f", ")", " ",
      "[", "y", "]", "(", "#", "f", ")">>
L_link_toc == <<"[", "t", "]", "(", "#", "table", "-", "of", "-", "contents", ")">>
TocLines == {L_toc, L_contents_sp, L_hF, L_tag_link, L_links, L_link_toc, L_bt3}

\* lint_file: a document that should_skip excludes
TOC_lint_skip ==
    /\ pc = "toc_lint"
    /\ should_skip(path)
    /\ pc' = "done"
    /\ UNCHANGED <<path, text, core, ext>>

\* lint_file: the headings, the anchor set and the state before the loop
TOC_lint_entry ==
    /\ pc = "toc_lint"
    /\ ~should_skip(path)
    /\ pc' = "toc_scan"
    /\ toc_headings' = TOC_extract_headings(text)
    /\ anchor_set' = build_anchor_set(TOC_extract_headings(text))
    /\ in_fence' = FALSE
    /\ fence_marker' = <<>>
    /\ in_toc' = FALSE
    /\ toc_errors' = <<>>
    /\ lint_idx' = 0
    /\ UNCHANGED <<path, text, opened_at, fence_errors, so_headings, so_errors,
                   ref_errors, dates_vars, links_vars, toc_vars, loops_vars,
                   md_files, checked, all_errors>>

\* lint_file: one turn of the loop over the lines
TOC_lint_line ==
    /\ pc = "toc_scan"
    /\ lint_idx < Len(text)
    /\ lint_idx' = lint_idx + 1
    /\ LET st == TOC_scan_step([in_fence |-> in_fence, fence_marker |-> fence_marker,
                                in_toc |-> in_toc, errors |-> toc_errors],
                               path, text[lint_idx + 1], anchor_set)
       IN  /\ in_fence' = st.in_fence
           /\ fence_marker' = st.fence_marker
           /\ in_toc' = st.in_toc
           /\ toc_errors' = st.errors
    /\ UNCHANGED <<path, text, pc, opened_at, fence_errors, so_headings,
                   toc_headings, so_errors, ref_errors, dates_vars, links_vars,
                   toc_vars, loops_vars, md_files, checked, all_errors, anchor_set>>

\* lint_file: return errors
TOC_lint_return ==
    /\ pc = "toc_scan"
    /\ lint_idx = Len(text)
    /\ pc' = "done"
    /\ UNCHANGED <<path, text, core, ext>>

InitToc ==
    /\ path \in {"docs/guide.md", "docs/_templates/TOPIC.md"}
    /\ text \in SeqsUpTo(TocLines, MaxTocLines)
    /\ pc = "toc_lint"
    /\ CoreIdle
    /\ ExtIdle

NextToc == TOC_lint_skip \/ TOC_lint_entry \/ TOC_lint_line \/ TOC_lint_return

SpecToc == InitToc /\ [][NextToc]_vars

----------------------------------------------------------------------------
(* The passes together: each document goes through one pass *)

Init == InitFences \/ InitOrder \/ InitRefs \/ InitRefIds \/ InitDates \/ InitLinks
            \/ InitSlug \/ InitAnchors \/ InitLoops \/ InitDriver \/ InitToc

Next == NextFences \/ NextOrder \/ NextRefs \/ NextDates \/ NextLinks
            \/ NextSlug \/ NextAnchors \/ NextLoops \/ NextDriver \/ NextToc

Spec == Init /\ [][Next]_vars

----------------------------------------------------------------------------
(* Fences: what a document's lines say, stated without the loop's state *)

IsFenceLine(line) == FENCE_RE(line) # <<>>

\* no line of doc after line j, up to line k, is a fence line of the character
\* of line j that is at least as long as the marker of line j
NoCloserBetween(doc, j, k) ==
    \A i \in (j + 1)..k :
        ~(/\ IsFenceLine(doc[i])
          /\ doc[i][1] = doc[j][1]
          /\ LeadingRun(doc[i], doc[j][1]) >= LeadingRun(doc[j], doc[j][1]))

\* line j opens a fence: it is a fence line and no earlier opening is still
\* open when it is read
RECURSIVE OpensAt(_, _)
OpensAt(doc, j) ==
    /\ IsFenceLine(doc[j])
    /\ \A i \in 1..(j - 1) : ~(OpensAt(doc, i) /\ NoCloserBetween(doc, i, j - 1))

\* the openings of doc that no later line closes
OpenAtEnd(doc) ==
    {j \in 1..Len(doc) : OpensAt(doc, j) /\ NoCloserBetween(doc, j, Len(doc))}

----------------------------------------------------------------------------
(* Claims on check_fences *)

\* C1: while a fence is open with an opening marker of character c and length
\* n, a line that matches the fence pattern closes the fence if and only if
\* its marker starts with c and has length >= n; after an opening of three
\* backticks, two backticks or three tildes leave the fence open and four
\* backticks close it.
C1_CloseIffSameCharAndLongEnough ==
    [][(pc = "fences" /\ pc' = "fences" /\ in_fence) =>
         LET line == Last(text')
             c == fence_marker[1]
             n == Len(fence_marker)
         IN  /\ IsFenceLine(line) =>
                   (~in_fence' <=> (line[1] = c /\ LeadingRun(line, c) >= n))
             /\ (fence_marker = L_bt3 /\ line \in {L_bt2, L_td3}) => in_fence'
             /\ (fence_marker = L_bt3 /\ line = L_bt4) => ~in_fence'
      ]_vars

\* three backticks opened, two backticks and three tildes read, four backticks
\* closed the fence
C1_Witness ==
    pc = "fences" /\ text = <<L_bt3, L_bt2, L_td3, L_bt4>> /\ ~in_fence

\* C2: at the end of the document lint_file returns exactly one unclosed-fence
\* violation if a fence is open after the last line and none otherwise; the
\* line it reports is the 1-based index of the most recent opening.
C2_UnclosedFenceReport ==
    pc = "done" =>
        IF OpenAtEnd(text) = {}
        THEN fence_errors = <<>>
        ELSE \E j \in OpenAtEnd(text) :
                /\ fence_errors =
                      <<[kind |-> "unclosed fence", path |-> path, line |-> j]>>
                /\ \A i \in 1..Len(text) : OpensAt(text, i) => i <= j

\* a fence was opened at line 1 and closed, and the fence open at the end was
\* opened later
C2_Witness ==
    /\ pc = "done"
    /\ Len(fence_errors) = 1
    /\ OpensAt(text, 1)
    /\ fence_errors[1].line > 2

----------------------------------------------------------------------------
(* Headings and fences: what a document's lines say *)

\* line j is the first line after the opening i that closes it
ClosedBy(doc, i, j) ==
    /\ IsFenceLine(doc[j])
    /\ doc[j][1] = doc[i][1]
    /\ LeadingRun(doc[j], doc[i][1]) >= LeadingRun(doc[i], doc[i][1])
    /\ NoCloserBetween(doc, i, j - 1)

\* the lines strictly between a fence-opening line and its closing line
Interior(doc) ==
    LET fences == {i \in 1..Len(doc) : IsFenceLine(doc[i])}
        opens == {i \in fences : OpensAt(doc, i)}
    IN  {k \in 1..Len(doc) :
            \E i \in opens : \E j \in fences :
                i < k /\ k < j /\ ClosedBy(doc, i, j)}

\* doc with the lines inside closed fences replaced by inert text
Blanked(doc) ==
    LET inside == Interior(doc)
    IN  [k \in 1..Len(doc) |-> IF k \in inside THEN L_text ELSE doc[k]]

\* doc without the lines inside closed fences
RECURSIVE DropLines(_, _, _)
DropLines(doc, inside, k) ==
    IF k > Len(doc) THEN <<>>
    ELSE IF k \in inside THEN DropLines(doc, inside, k + 1)
    ELSE <<doc[k]>> \o DropLines(doc, inside, k + 1)

Emptied(doc) == DropLines(doc, Interior(doc), 1)

\* the messages of a kind, in their order
OfKind(errs, kind) == SelectSeq(errs, LAMBDA e : e.kind = kind)

\* the messages that come from the headings
HeadingErrors(errs) == SelectSeq(errs, LAMBDA e : e.kind # "missing token")

\* the smallest 0-based index at which h occurs in headings
FirstIdx(headings, h) ==
    LET at == {i \in 1..Len(headings) : headings[i] = h}
    IN  (CHOOSE i \in at : \A j \in at : i <= j) - 1

\* the place of a required heading in the canonical order
CanonIdx(h) == CHOOSE k \in 1..Len(REQUIRED_HEADINGS) : REQUIRED_HEADINGS[k] = h

Required == Range(REQUIRED_HEADINGS)

Absent(headings) == Required \ Range(headings)

\* headings without the occurrences of a heading after its first
RECURSIVE FirstOccurrences(_, _)
FirstOccurrences(headings, k) ==
    IF k > Len(headings) THEN <<>>
    ELSE IF \E j \in 1..(k - 1) : headings[j] = headings[k]
    THEN FirstOccurrences(headings, k + 1)
    ELSE <<headings[k]>> \o FirstOccurrences(headings, k + 1)

\* check_section_order.lint_file and the heading pass of check_toc have returned
SO_linted == pc = "done"

----------------------------------------------------------------------------
(* Claims on the heading extractors and check_section_order *)

\* C3: a line strictly between a fence-opening line and its closing line is
\* never returned as a heading by either extract_headings, whatever it holds:
\* the headings, and the messages check_section_order derives from them, are
\* those of the document with the fenced lines made inert, or removed.
C3_FencedLinesAreNoHeadings ==
    pc = "done" =>
        LET blanked == Blanked(text)
            emptied == Emptied(text)
            hb == SO_extract_headings(blanked)
            he == SO_extract_headings(emptied)
        IN  /\ so_headings = hb
            /\ so_headings = he
            /\ toc_headings = TOC_extract_headings(blanked)
            /\ toc_headings = TOC_extract_headings(emptied)
            /\ HeadingErrors(so_errors) =
                   HeadingErrors(SectionOrderErrors(path, blanked, hb))
            /\ HeadingErrors(so_errors) =
                   HeadingErrors(SectionOrderErrors(path, emptied, he))

\* a valid document that holds "## References" in a closed fence before
\* "## Agent Contract": read as a heading, the line would break the order
C3_Witness ==
    /\ pc = "done"
    /\ so_errors = <<>>
    /\ \E k \in Interior(text) :
          /\ text[k] = REQUIRED_HEADINGS[10]
          /\ \E j \in (k + 1)..Len(text) : text[j] = REQUIRED_HEADINGS[1]

\* the document holds the ten required headings, each once, in canonical order
\* but for "## Core Patterns" before "## Canonical Definitions", and no fence
SwappedDocument ==
    /\ SelectSeq(text, LAMBDA l : l \in Required) = SwapAt(REQUIRED_HEADINGS, 3)
    /\ \A k \in 1..Len(text) : ~IsFenceLine(text[k])

\* C5 as stated: for that document lint_file produces exactly one
\* order-violation message, and it cites "## Canonical Definitions".
C5_CitesCanonicalDefinitions ==
    (SO_linted /\ SwappedDocument) =>
        OfKind(so_errors, "section order violation") =
            <<[kind |-> "section order violation", path |-> path,
               at |-> H2("Canonical Definitions")]>>

\* C5, amended: for that document lint_file produces exactly one
\* order-violation message, and it cites "## Core Patterns", the heading whose
\* first occurrence is not after that of its canonical predecessor.
C5_CitesCorePatterns ==
    (SO_linted /\ SwappedDocument) =>
        OfKind(so_errors, "section order violation") =
            <<[kind |-> "section order violation", path |-> path,
               at |-> H2("Core Patterns")]>>

C5_Witness == SO_linted /\ SwappedDocument /\ Len(so_errors) = 1

\* C6: if a required heading is absent from the extracted headings, the result
\* is exactly one message, which lists every absent required heading in
\* canonical order; no other message is produced.
C6_MissingListsAllAndStops ==
    (SO_linted /\ Absent(so_headings) # {}) =>
        /\ Len(so_errors) = 1
        /\ so_errors[1].kind = "missing required headings"
        /\ so_errors[1].path = path
        /\ Range(so_errors[1].names) = Absent(so_headings)
        /\ \A i, j \in 1..Len(so_errors[1].names) :
              i < j => CanonIdx(so_errors[1].names[i]) < CanonIdx(so_errors[1].names[j])

\* "## TL;DR" and "## References" are absent, "## Evaluation" is present
C6_Witness ==
    /\ SO_linted
    /\ {H2("TL;DR"), H2("References")} \subseteq Absent(so_headings)
    /\ H2("Evaluation") \in Range(so_headings)

\* the first-occurrence indices of the required headings increase strictly
\* along the canonical order
Increasing(headings) ==
    \A k \in 1..(Len(REQUIRED_HEADINGS) - 1) :
        FirstIdx(headings, REQUIRED_HEADINGS[k])
            < FirstIdx(headings, REQUIRED_HEADINGS[k + 1])

\* C7: with all ten required headings present, an order-violation message is
\* produced if and only if the first-occurrence indices, in canonical order,
\* are not strictly increasing; there is at most one, naming the first
\* required heading whose first occurrence is not after that of its canonical
\* predecessor; later occurrences of a heading do not change the result.
C7_OrderViolationIffNotIncreasing ==
    (SO_linted /\ Absent(so_headings) = {}) =>
        LET msgs == OfKind(so_errors, "section order violation")
            bad == {k \in 2..Len(REQUIRED_HEADINGS) :
                       FirstIdx(so_headings, REQUIRED_HEADINGS[k])
                           <= FirstIdx(so_headings, REQUIRED_HEADINGS[k - 1])}
        IN  /\ (msgs # <<>>) <=> ~Increasing(so_headings)
            /\ Len(msgs) <= 1
            /\ msgs # <<>> =>
                  /\ msgs[1].path = path
                  /\ CanonIdx(msgs[1].at) \in bad
                  /\ \A k \in bad : CanonIdx(msgs[1].at) <= k
            /\ so_errors =
                  SectionOrderErrors(path, text, FirstOccurrences(so_headings, 1))

\* a required heading occurs twice, the order of the first occurrences is
\* broken, and the message names a heading other than "## References"
C7_Witness ==
    /\ SO_linted
    /\ Absent(so_headings) = {}
    /\ Len(so_headings) > Cardinality(Range(so_headings))
    /\ OfKind(so_errors, "section order violation") # <<>>
    /\ so_errors[1].at # REQUIRED_HEADINGS[10]

\* C8: with all ten required headings present and the optional heading
\* present, the optional-heading violation is produced if and only if the
\* optional heading's first occurrence is not strictly between those of
\* "## Evaluation" and "## Update Log", whether or not an order violation was
\* reported; with the optional heading absent there is none.
C8_OptionalBetweenEvaluationAndUpdateLog ==
    (SO_linted /\ Absent(so_headings) = {}) =>
        LET msgs == OfKind(so_errors, "optional heading misplaced")
            opt == FirstIdx(so_headings, OPTIONAL_HEADING)
        IN  /\ Len(msgs) <= 1
            /\ OPTIONAL_HEADING \notin Range(so_headings) => msgs = <<>>
            /\ OPTIONAL_HEADING \in Range(so_headings) =>
                  ((msgs # <<>>) <=>
                      ~(/\ FirstIdx(so_headings, H2("Evaluation")) < opt
                        /\ opt < FirstIdx(so_headings, H2("Update Log"))))

\* an order violation and an optional-heading violation in one result
C8_Witness ==
    /\ SO_linted
    /\ OfKind(so_errors, "section order violation") # <<>>
    /\ OfKind(so_errors, "optional heading misplaced") # <<>>
    /\ FirstIdx(so_headings, H2("Evaluation")) < FirstIdx(so_headings, OPTIONAL_HEADING)

\* the tokens of SSOT_TOKENS that the text lacks
AbsentTokens(doc) == {k \in 1..Len(SSOT_TOKENS) : ~TextContains(doc, SSOT_TOKENS[k])}

\* the missing-token message is there if and only if a token is absent, and
\* names the first absent token
TokenMessageRight ==
    LET msgs == OfKind(so_errors, "missing token")
    IN  /\ Len(msgs) <= 1
        /\ (msgs # <<>>) <=> (AbsentTokens(text) # {})
        /\ msgs # <<>> =>
              /\ msgs[1].path = path
              /\ \E k \in AbsentTokens(text) :
                    /\ msgs[1].token = SSOT_TOKENS[k]
                    /\ \A i \in AbsentTokens(text) : k <= i

\* C9 as stated: for SSOT.md the missing-token message is produced if and only
\* if a token is absent from the full text, whatever the outcome of the
\* heading checks, and names the first absent token; for any other name there
\* is none.
C9_TokenMessageWhateverTheHeadings ==
    SO_linted =>
        IF path = "SSOT.md" THEN TokenMessageRight
        ELSE OfKind(so_errors, "missing token") = <<>>

\* C9, amended: for SSOT.md with all ten required headings present, the
\* missing-token message is produced if and only if a token is absent from
\* the full text, and names the first absent token; with a required heading
\* missing lint_file returns before the token check and there is none; for any
\* other name there is none.
C9_TokenMessageWhenHeadingsComplete ==
    SO_linted =>
        IF path = "SSOT.md" /\ Absent(so_headings) = {} THEN TokenMessageRight
        ELSE OfKind(so_errors, "missing token") = <<>>

\* SSOT.md with "BCP 14" present and "RFC 2119" absent, and an order violation
C9_Witness ==
    /\ SO_linted
    /\ path = "SSOT.md"
    /\ AbsentTokens(text) = {2, 3}
    /\ Len(so_errors) = 2
    /\ so_errors[2].kind = "missing token"
    /\ so_errors[2].token = "RFC 2119"

----------------------------------------------------------------------------
(* References: what a document's lines say *)

\* the lines before the first "## References" line
LinesBeforeReferences(doc) ==
    IF \E k \in 1..Len(doc) : doc[k] = L_refs
    THEN (CHOOSE k \in 1..Len(doc) :
              doc[k] = L_refs /\ \A j \in 1..(k - 1) : doc[j] # L_refs) - 1
    ELSE Len(doc)

\* line k of doc is a fence line or lies after an opening that no line up to
\* k closes
IsCode(doc, k) ==
    \/ IsFenceLine(doc[k])
    \/ \E i \in 1..(k - 1) : OpensAt(doc, i) /\ NoCloserBetween(doc, i, k)

\* U: the identifiers used on the lines before "## References" that are not
\* code
UsedInBody(doc) ==
    LET body == SubSeq(doc, 1, LinesBeforeReferences(doc))
    IN  UNION {Used(<<body[k]>>) : k \in {j \in 1..Len(body) : ~IsCode(body, j)}}

\* D: the identifiers of the definition lines from "## References" on
DefinedInReferences(doc) ==
    {<<d>> : d \in {c \in {"1", "2", "3"} :
                      \E k \in (LinesBeforeReferences(doc) + 1)..Len(doc) :
                          doc[k] = DefLine(c)}}

\* the message of the kind is there if and only if ids is not empty, is there
\* once, and names exactly ids, each once
NamesExactly(errs, kind, ids) ==
    LET msgs == OfKind(errs, kind)
    IN  /\ (msgs # <<>>) <=> (ids # {})
        /\ Len(msgs) <= 1
        /\ msgs # <<>> =>
              /\ Range(msgs[1].ids) = ids
              /\ Len(msgs[1].ids) = Cardinality(ids)

----------------------------------------------------------------------------
(* Claims on check_references *)

\* C4: lines strictly inside a closed fence are excluded from reference
\* extraction: a fenced "## References" does not split the document, a fenced
\* usage is not counted as used, a fenced definition is not counted as a
\* definition; the violations are those of the document with the fenced lines
\* replaced by inert text.
C4_FencedLinesAreNoReferences ==
    pc = "done" =>
        LET blanked == Blanked(text)
            used == Used(strip_code(RF_body(blanked)))
            defined == Defined(RF_refs(blanked))
        IN  \E missing \in SortedByInt(used \ defined) :
                \E unused \in SortedByInt(defined \ used) :
                    ref_errors = ReferencesErrors(path, blanked, missing, unused)

\* C10: with U the identifiers used in the code-stripped body and D those
\* defined in the References section, the undefined message is produced if and
\* only if U \ D is not empty and names exactly U \ D, the unused message if
\* and only if D \ U is not empty and names exactly D \ U, each at most once;
\* usages in the References section do not count.  U = D = {1, 2} with
\* well-formed definitions gives no violation; without the definition of R2,
\* one undefined message naming R2; with an unused definition of R3, one
\* unused message naming R3.
C10_UndefinedAndUnusedAreSetDifferences ==
    pc = "done" =>
        LET U == UsedInBody(text)
            D == DefinedInReferences(text)
        IN  /\ NamesExactly(ref_errors, "undefined references used", U \ D)
            /\ NamesExactly(ref_errors, "unused references defined", D \ U)
            /\ (U = {<<"1">>, <<"2">>} /\ D = U) => ref_errors = <<>>
            /\ text = <<L_use12, L_refs, L_def1>> =>
                  ref_errors = <<[kind |-> "undefined references used",
                                  path |-> path, ids |-> <<<<"2">>>>]>>
            /\ text = <<L_use12, L_refs, L_def1, L_def2, L_def3>> =>
                  ref_errors = <<[kind |-> "unused references defined",
                                  path |-> path, ids |-> <<<<"3">>>>]>>

\* R1 is used in the body and not defined, R2 is defined and used only in the
\* References section: both messages are produced
C10_Witness ==
    /\ pc = "done"
    /\ \E k \in (LinesBeforeReferences(text) + 1)..Len(text) : text[k] = L_use12
    /\ OfKind(ref_errors, "undefined references used") # <<>>
    /\ OfKind(ref_errors, "unused references defined") # <<>>
    /\ ref_errors[2].ids = <<<<"2">>>>

----------------------------------------------------------------------------
(* Claims on the References heading and on identifiers *)

\* the document holds a "## References" line
HasReferencesHeading(doc) == \E k \in 1..Len(doc) : doc[k] = L_refs

\* the line is a list item "- [R<digits>] <text>": a definition line
IsDefinitionLine(line) ==
    /\ Len(line) >= 8
    /\ line[1] \in {"-", "*"}
    /\ line[2] = " "
    /\ line[3] = "["
    /\ line[4] = "R"
    /\ \E c \in 6..(Len(line) - 2) :
          /\ \A q \in 5..(c - 1) : IsDigit(line[q])
          /\ line[c] = "]"
          /\ line[c + 1] = " "

\* the definition lines from "## References" on
DefinitionLines(doc) ==
    {k \in (LinesBeforeReferences(doc) + 1)..Len(doc) : IsDefinitionLine(doc[k])}

\* C11: without a "## References" heading the references section is empty:
\* every identifier used in the body is reported as undefined and nothing
\* else is reported, the no-definitions message in particular; with the
\* heading and no definition line in the section, exactly one no-definitions
\* message is produced, next to the undefined message if the body uses an
\* identifier.
C11_NoHeadingOrNoDefinitions ==
    pc = "done" =>
        LET U == UsedInBody(text)
            undefined == OfKind(ref_errors, "undefined references used")
            nodefs == OfKind(ref_errors, "no definitions")
        IN  /\ ~HasReferencesHeading(text) =>
                  /\ NamesExactly(ref_errors, "undefined references used", U)
                  /\ ref_errors = undefined
            /\ (HasReferencesHeading(text) /\ DefinitionLines(text) = {}) =>
                  /\ Len(nodefs) = 1
                  /\ NamesExactly(ref_errors, "undefined references used", U)
                  /\ ref_errors = undefined \o nodefs

----------------------------------------------------------------------------
(* Dates: what a document's lines say *)

\* the closing line of the leading frontmatter block: the first line "---"
\* after the first line "---" and at least one line of content, ended by a
\* line break; 0 if the document does not start with such a block
FrontmatterClose(s) ==
    LET lines == splitlines(s)
        closes == {k \in 3..Len(lines) :
                      /\ lines[1] = L_fm
                      /\ lines[k] = L_fm
                      /\ (k = Len(lines) => Last(s) = NL)}
    IN  IF closes = {} THEN 0 ELSE CHOOSE k \in closes : \A q \in closes : k <= q

\* the date of the first last_updated field of the frontmatter block, <<>> if
\* there is no block or no field in it
FrontDate(s) ==
    LET lines == splitlines(s)
        fields == {k \in 2..(FrontmatterClose(s) - 1) :
                      \E d \in Dates : lines[k] = L_field(d)}
    IN  IF fields = {} THEN <<>>
        ELSE <<lines[CHOOSE k \in fields : \A q \in fields : k <= q][3]>>

\* the date a bullet starts with, <<>> if the line is no bullet or a bullet
\* without a leading date
LeadingDate(line) ==
    IF Len(line) >= 3 /\ line[1] = "-" /\ line[2] = " " /\ line[3] \in Dates
    THEN <<line[3]>>
    ELSE IF /\ Len(line) >= 4
            /\ line[1] = "-"
            /\ line[2] = " "
            /\ line[3] = "**"
            /\ line[4] \in Dates
    THEN <<line[4]>>
    ELSE <<>>

\* the lines after the first "## Update Log" line that are not blank
\* ({} without the heading)
AfterUpdateLog(s) ==
    LET lines == splitlines(s)
        logs == {k \in 1..Len(lines) : lines[k] = L_log}
    IN  IF logs = {} THEN {}
        ELSE {k \in ((CHOOSE k \in logs : \A q \in logs : k <= q) + 1)..Len(lines) :
                 lines[k] # <<>>}

\* the date of the Update Log: that of its first non-blank line, <<>> without
\* the heading, without such a line, or if the line has no leading date
LogDate(s) ==
    LET after == AfterUpdateLog(s)
    IN  IF after = {} THEN <<>>
        ELSE LeadingDate(splitlines(s)[CHOOSE k \in after : \A q \in after : k <= q])

----------------------------------------------------------------------------
(* Claims on check_last_updated *)

----------------------------------------------------------------------------
(* Links: what a document's lines say *)

\* the target of the link the line holds, as written between the
\* parentheses; <<>> if the line holds no link
RawOfLine(line) ==
    LET l == Strip(line)
    IN  IF /\ Len(l) >= 6
           /\ SubSeq(l, 1, 4) = <<"[", "x", "]", "(">>
           /\ Last(l) = ")"
        THEN SubSeq(l, 5, Len(l) - 1)
        ELSE <<>>

\* the target after normalisation: without the whitespace around it, cut at
\* its first space unless it starts with "<", then without the angle brackets
\* around it
Normalized(raw) ==
    LET t == StripWs(raw)
        spaces == {i \in 1..Len(t) : t[i] = " "}
    IN  StripAngles(IF spaces # {} /\ t[1] # "<"
                    THEN SubSeq(t, 1, (CHOOSE i \in spaces : \A j \in spaces : i <= j) - 1)
                    ELSE t)

\* the part of the target before its first "#"
PathPart(target) ==
    LET hashes == {i \in 1..Len(target) : target[i] = "#"}
    IN  IF hashes = {} THEN target
        ELSE SubSeq(target, 1, (CHOOSE i \in hashes : \A j \in hashes : i <= j) - 1)

\* the normalised target is one to look up in the filesystem
Eligible(target) ==
    /\ target # <<>>
    /\ target[1] # "#"
    /\ target[1] \notin {"http://", "https://", "mailto:", "tel:"}
    /\ PathPart(target) # <<>>
    /\ \/ \A i \in 1..Len(PathPart(target)) : ~HasColon(PathPart(target)[i])
       \/ target[1] \in {"./", "../"}

\* the eligible targets of the links on the lines from line k on that are
\* not code, normalised, in the order of the lines
RECURSIVE EligibleTargets(_, _)
EligibleTargets(doc, k) ==
    IF k > Len(doc) THEN <<>>
    ELSE (IF /\ ~IsCode(doc, k)
             /\ ~Indented(doc[k])
             /\ RawOfLine(doc[k]) # <<>>
             /\ Eligible(Normalized(RawOfLine(doc[k])))
          THEN <<Normalized(RawOfLine(doc[k]))>>
          ELSE <<>>) \o EligibleTargets(doc, k + 1)

----------------------------------------------------------------------------
(* Claims on check_links *)

----------------------------------------------------------------------------
(* Claims on slugify and build_anchor_set *)

\* C14: build_anchor_set assigns unique anchors: the anchors of distinct
\* heading positions are pairwise distinct, so the anchor set has as many
\* elements as there are headings (as for headings with the base slugs "foo",
\* "foo", "foo-1").
C14_AnchorsPairwiseDistinct ==
    pc = "done" =>
        /\ \A i, j \in 1..Len(assigned) : i # j => assigned[i] # assigned[j]
        /\ Cardinality(anchors) = Len(ba_headings)

\* C15: slugify is idempotent, slugify(slugify(t)) = slugify(t), and its
\* result never starts or ends with "-" and never holds "--", whitespace or an
\* upper-case letter; the same text gives the same result.
C15_SlugifyIdempotent ==
    Len(slugs) >= 2 =>
        LET s == slugs[2]
        IN  /\ s = slugify(slugs[1])
            /\ Len(slugs) = 3 => slugs[3] = s
            /\ s # <<>> => s[1] # "-" /\ Last(s) # "-"
            /\ \A i \in 1..(Len(s) - 1) : ~(s[i] = "-" /\ s[i + 1] = "-")
            /\ \A i \in 1..Len(s) : ~IsWs(s[i]) /\ s[i] # "F"

\* slugify was called twice on a text with an upper-case letter, a space, a
\* punctuation mark and a hyphen, and the slug is not empty
C15_Witness ==
    /\ Len(slugs) = 3
    /\ {"F", " ", "!", "-"} \subseteq Range(slugs[1])
    /\ slugs[2] # <<>>

\* the number of headings before the i-th one that have its base slug
EarlierSame(hs, i) ==
    Cardinality({j \in 1..(i - 1) : slugify(hs[j]) = slugify(hs[i])})

\* C19: in extraction order, the first heading with a base slug b receives the
\* anchor "#b" and the k-th later heading with that base slug receives
\* "#b-k"; the second occurrence of a heading text receives an anchor that
\* differs from that of its first occurrence.
C19_SuffixCountsEarlierOccurrences ==
    /\ \A i \in 1..Len(assigned) :
          assigned[i] =
              IF EarlierSame(ba_headings, i) = 0
              THEN <<"#">> \o slugify(ba_headings[i])
              ELSE <<"#">> \o slugify(ba_headings[i]) \o <<"-">>
                       \o Digits(EarlierSame(ba_headings, i))
    /\ \A i, j \in 1..Len(assigned) :
          (i < j /\ ba_headings[i] = ba_headings[j]
               /\ \A q \in 1..(j - 1) : ba_headings[q] = ba_headings[j] => q = i)
              => assigned[j] # assigned[i]

\* three headings of one base slug: the third one received the suffix 2
C19_Witness ==
    /\ pc = "done"
    /\ Len(assigned) = 3
    /\ EarlierSame(ba_headings, 3) = 2
    /\ ba_headings[1] # ba_headings[2]
    /\ assigned[3] = <<"#", "f", "-", "2">>


----------------------------------------------------------------------------
(* Claims on the comparison of identifiers *)

\* the identifiers of the definition lines of the section, read line by line
DefinedIds(doc) ==
    {d \in {<<"1">>, <<"0", "1">>} :
        \E k \in (LinesBeforeReferences(doc) + 1)..Len(doc) : doc[k] = DefLineOf(d)}

\* the section holds a list item without a title
HasBareItem(doc) ==
    \E k \in (LinesBeforeReferences(doc) + 1)..Len(doc) : doc[k] = L_bare1

\* the identifiers named by the messages of the kind
NamedIn(errs, kind) ==
    UNION {Range(OfKind(errs, kind)[k].ids) : k \in 1..Len(OfKind(errs, kind))}

\* the identifiers of every message come in the order of their values
SortedByValue(errs) ==
    \A k \in 1..Len(errs) :
        errs[k].kind \in {"undefined references used", "unused references defined"} =>
            \A i, j \in 1..Len(errs[k].ids) :
                i < j => IntOf(errs[k].ids[i]) <= IntOf(errs[k].ids[j])

\* C20: identifiers are compared as digit strings, not as numbers: when the
\* body uses R01 and not R1 and the section defines R1 and not R01, or the
\* reverse, the used one is named as undefined and the defined one as unused,
\* and the two messages are the set differences of the digit strings (both
\* for a section whose list items all have a title); an identifier is named
\* as undefined only if the body uses these very digits; the values only
\* order the identifiers inside a message.
C20_IdsComparedAsDigitStrings ==
    pc = "done" =>
        LET U == UsedInBody(text)
            D == DefinedIds(text)
            undefined == NamedIn(ref_errors, "undefined references used")
            unused == NamedIn(ref_errors, "unused references defined")
        IN  /\ undefined \subseteq U
            /\ undefined \cap unused = {}
            /\ ~HasBareItem(text) =>
                  /\ \A x, y \in {<<"1">>, <<"0", "1">>} :
                        (x # y /\ x \in U /\ y \notin U /\ y \in D /\ x \notin D) =>
                            (x \in undefined /\ y \in unused)
                  /\ NamesExactly(ref_errors, "undefined references used", U \ D)
                  /\ NamesExactly(ref_errors, "unused references defined", D \ U)
            /\ SortedByValue(ref_errors)

\* the body uses R01, the section defines R1: both messages are produced
C20_Witness ==
    /\ pc = "done"
    /\ text = <<L_use01, L_refs, L_def1>>
    /\ Len(ref_errors) = 2
    /\ ref_errors[1].ids = <<<<"0", "1">>>>
    /\ ref_errors[2].ids = <<<<"1">>>>


----------------------------------------------------------------------------
(* Claims on the drivers and on the fence loops of the passes *)

\* the violations of the fence pass on the document alone
FenceErrorsAlone(f) ==
    IF OpenAtEnd(f.text) = {} THEN <<>>
    ELSE <<[kind |-> "unclosed fence", path |-> f.path,
            line |-> CHOOSE j \in OpenAtEnd(f.text) : TRUE]>>

\* the violations of the section-order pass on the document alone
OrderErrorsAlone(f) ==
    SectionOrderErrors(f.path, f.text, SO_extract_headings(f.text))

\* the violations of the first n documents, each linted alone, one after the
\* other
RECURSIVE ErrorsAlone(_, _, _)
ErrorsAlone(files, n, order_pass) ==
    IF n = 0 THEN <<>>
    ELSE ErrorsAlone(files, n - 1, order_pass)
             \o (IF order_pass THEN OrderErrorsAlone(files[n])
                 ELSE FenceErrorsAlone(files[n]))

\* C16: no state is kept across documents: after each call of lint_file the
\* violations collected by the driver are those of the documents linted so
\* far, each linted alone, whatever came before; lint_file starts every
\* document with the fence closed, also after a document that left a fence
\* open; and the same document linted twice gives the same violations twice.
C16_NoStateAcrossDocuments ==
    /\ pc \in {"main", "main_return"} =>
          /\ all_errors = ErrorsAlone(md_files, checked, FALSE)
          /\ checked > 0 => fence_errors = FenceErrorsAlone(md_files[checked])
    /\ pc \in {"so_main", "so_main_return"} =>
          /\ all_errors = ErrorsAlone(md_files, checked, TRUE)
          /\ checked > 0 => so_errors = OrderErrorsAlone(md_files[checked])
    /\ (pc \in {"lint_file", "extract_headings"} /\ lint_idx = 0) =>
          (~in_fence /\ fence_marker = <<>>)
    /\ (pc \in {"main", "so_main"} /\ checked = 2 /\ md_files[1] = md_files[2]) =>
          \E errs \in {fence_errors, so_errors} : all_errors = errs \o errs

\* a document that leaves a fence open was linted, and then a document whose
\* only line is a fence line: both are reported
C16_Witness ==
    /\ pc = "main_return"
    /\ md_files = <<[path |-> "README.md", text |-> <<L_bt3, L_text>>],
                    [path |-> "AGENTS.md", text |-> <<L_bt3>>]>>
    /\ Len(all_errors) = 2
    /\ all_errors[2].path = "AGENTS.md"

\* the line is a fence line that does not close a fence opened with marker
NonClosing(line, marker) ==
    /\ IsFenceLine(line)
    /\ ~(line[1] = marker[1] /\ LeadingRun(line, marker[1]) >= Len(marker))

\* C17: while a fence is open, a fence line that does not close it (shorter
\* marker or other character) changes nothing: the stored marker and the
\* recorded opening line stay those of the opening, in every pass the fence
\* stays open with its marker and the line is dropped (the output of the
\* strip functions and the headings found are as before the line); there is
\* one flag, open or closed, and no nesting.
C17_NonClosingFenceLineChangesNothing ==
    [][(pc = "loops" /\ pc' = "loops" /\ in_fence
            /\ NonClosing(Last(text'), fence_marker)) =>
         /\ in_fence' = TRUE
         /\ fence_marker' = fence_marker
         /\ opened_at' = opened_at
         /\ loops' = loops
         /\ \A p \in DOMAIN loops : loops[p].in_fence = TRUE
      ]_vars

\* three backticks opened the fence at line 1, two lines that do not close it
\* were read, and the fence is still the one of line 1
C17_Witness ==
    /\ pc = "loops"
    /\ text = <<L_bt3, L_td3, L_bt2>>
    /\ in_fence
    /\ opened_at = 1
    /\ loops.strip_code.fence_marker = L_bt3

\* the last opening of doc
LastOpening(doc) ==
    CHOOSE j \in 1..Len(doc) :
        OpensAt(doc, j) /\ \A i \in 1..Len(doc) : OpensAt(doc, i) => i <= j

\* C18: after every line the five loops agree on whether a fence is open and
\* on the stored opening marker; hence the document has an unclosed-fence
\* violation exactly when the other passes end inside a fence, and then they
\* have read every line after the last opening as code: what they return is
\* what they return for the lines before that opening.
C18_FenceLoopsAgree ==
    pc \in {"loops", "done"} =>
        /\ \A p \in DOMAIN loops :
              /\ loops[p].in_fence = in_fence
              /\ loops[p].fence_marker = fence_marker
        /\ loops.strip_code.out = strip_code(text)
        /\ loops.strip_fenced_code.out = loops.strip_code.out
        /\ loops.so_extract_headings.out = SO_extract_headings(text)
        /\ loops.toc_extract_headings.out = TOC_extract_headings(text)
        /\ pc = "done" =>
              /\ (fence_errors # <<>>) <=> (\A p \in DOMAIN loops : loops[p].in_fence)
              /\ (fence_errors # <<>>) <=> (OpenAtEnd(text) # {})
              /\ fence_errors # <<>> =>
                    LET before == SubSeq(text, 1, LastOpening(text) - 1)
                    IN  /\ fence_errors[1].line = LastOpening(text)
                        /\ loops.strip_code.out = strip_code(before)
                        /\ loops.strip_fenced_code.out = strip_code(before)
                        /\ loops.so_extract_headings.out = SO_extract_headings(before)
                        /\ loops.toc_extract_headings.out
                               = TOC_extract_headings(before)
              /\ (fence_errors = <<>> /\ text # <<>> /\ Last(text) = L_h2) =>
                    /\ Last(loops.strip_code.out) = L_h2
                    /\ Last(loops.so_extract_headings.out) = L_h2
                    /\ Last(loops.toc_extract_headings.out) = <<"Purpose">>

\* a fence was closed, a second one is left open before a heading: the fence
\* pass reports line 3 and the heading passes have not read the heading
C18_Witness ==
    /\ pc = "done"
    /\ text = <<L_bt3, L_bt3, L_td3, L_h2>>
    /\ fence_errors # <<>>
    /\ loops.so_extract_headings.in_fence
    /\ loops.toc_extract_headings.out = <<>>


----------------------------------------------------------------------------
(* Claims on the fence state of check_fences *)

\* a run of at least three backticks or of at least three tildes
IsMarkerRun(marker) ==
    /\ Len(marker) >= 3
    /\ marker[1] \in {Backtick, Tilde}
    /\ \A i \in 1..Len(marker) : marker[i] = marker[1]

\* C21: in check_fences.lint_file, after every line the three state variables
\* agree: the fence is closed exactly when the stored marker is empty and the
\* recorded opening line is 0, and open exactly when the stored marker is a
\* run of at least three backticks or at least three tildes and the recorded
\* opening line lies between 1 and the index of the current line.
C21_FenceStateAgrees ==
    pc \in {"fences", "done"} =>
        /\ in_fence \in BOOLEAN
        /\ ~in_fence <=> (fence_marker = <<>> /\ opened_at = 0)
        /\ in_fence <=> (IsMarkerRun(fence_marker) /\ opened_at \in 1..Len(text))
        /\ fence_marker = <<>> <=> opened_at = 0

\* a fence was opened and closed, and a fence of four backticks is open since
\* line 3, one line further on
C21_Witness ==
    /\ pc = "fences"
    /\ Len(text) = 4
    /\ in_fence
    /\ opened_at = 3
    /\ fence_marker = L_bt4


----------------------------------------------------------------------------
(* Claims on the scan of the table of contents *)

\* the line, trimmed, is one of the two headings of a table of contents
IsTocHeading(line) == Strip(line) \in TOC_HEADINGS

\* the line starts with "#"
StartsHash(line) == line # <<>> /\ line[1] = "#"

\* after line k the scan is in the region: a non-fenced line up to k is a
\* heading of a table of contents and no non-fenced line after it, up to k,
\* starts with "#"
InTocAfter(doc, k) ==
    \E j \in 1..k :
        /\ ~IsCode(doc, j)
        /\ IsTocHeading(doc[j])
        /\ \A i \in (j + 1)..k : IsCode(doc, i) \/ ~StartsHash(doc[i])

\* the links of line k are looked at: the line is not fenced, is not the
\* heading that starts the region and lies in the region
LinksChecked(doc, k) ==
    /\ ~IsCode(doc, k)
    /\ ~IsTocHeading(doc[k])
    /\ InTocAfter(doc, k)

\* the violations of the first n lines: for each line whose links are looked
\* at, in order, its "#" links whose anchor the anchor set does not hold
RECURSIVE TocViolations(_, _, _, _)
TocViolations(p, doc, n, aset) ==
    IF n = 0 THEN <<>>
    ELSE TocViolations(p, doc, n - 1, aset)
             \o (IF LinksChecked(doc, n)
                 THEN AnchorsNotFound(p, TocLinkFindAll(doc[n], 1), aset)
                 ELSE <<>>)

\* C22: the region of the table of contents is a two-state machine over the
\* non-fenced lines: after every line the scan is in the region exactly when
\* a non-fenced line equal, after trimming, to "## Table of Contents" or
\* "## Contents" was read and no non-fenced line starting with "#" was read
\* since; the violations are those of the "#" links on the non-fenced lines
\* inside the region whose anchor is not in the anchor set of the document;
\* links outside the region, inside a fence or on the line that ends the
\* region are not checked.
C22_TocRegionTwoStates ==
    /\ pc \in {"toc_scan", "done"} =>
          /\ in_toc \in BOOLEAN
          /\ in_toc <=> InTocAfter(text, lint_idx)
          /\ toc_errors = TocViolations(path, text, lint_idx, anchor_set)
          /\ \A e \in 1..Len(toc_errors) :
                /\ toc_errors[e].anchor \notin anchor_set
                /\ toc_errors[e].anchor[1] = "#"
                /\ \E k \in 1..lint_idx :
                      /\ ~IsCode(text, k)
                      /\ InTocAfter(text, k)
                      /\ \E i \in 1..(Len(text[k]) - Len(toc_errors[e].anchor) + 1) :
                            SubSeq(text[k], i, i + Len(toc_errors[e].anchor) - 1)
                                = toc_errors[e].anchor
    /\ (pc = "done" /\ should_skip(path)) => toc_errors = <<>>
    /\ (pc = "toc_scan" /\ lint_idx = 0) => (~in_toc /\ toc_errors = <<>>)

\* the region was entered, two links of a line in it were reported, a line
\* starting with "#" ended it, and neither the link of that line nor the
\* links after it were reported
C22_Witness ==
    /\ pc = "done"
    /\ text = <<L_toc, L_links, L_tag_link, L_links>>
    /\ ~in_toc
    /\ Len(toc_errors) = 2
    /\ toc_errors[1].anchor = <<"#", "1">>
    /\ toc_errors[2].anchor = <<"#", "f">>

====
